---- MODULE Spec2Model ----
(***************************************************************************)
(* ZombieYield: the wallet scanner hook (useScanner), its module-level     *)
(* scan cache, and the scoring engine (pointsEngine).                       *)
(*                                                                          *)
(* Two components mount useScanner at the same time (ZombieDashboard and    *)
(* DevDebugPanel, both rendered by App): each has its own React state and   *)
(* refs, and both share the module-level scanCache.                         *)
(*                                                                          *)
(* Time is counted in minutes.  Token balances are in hundredths of a       *)
(* token, multipliers in thousandths.                                       *)
(***************************************************************************)
EXTENDS Integers, Sequences, FiniteSets, TLC

\* ------------------------------------------------------------------ bounds
\* the clock of the hook model stops here
MaxTime == 6
\* the clock of the cache model stops here
MaxCacheTime == 6
\* the longest ledger (token accounts of one wallet) of the scan model
MaxAccounts == 2
\* the most token accounts of a ledger probed for dormancy lookups
MaxTokenAccounts == 6
\* the latest instant of the points model, in hours after the 365th day
MaxExtraHours == 840
\* the largest zombieCount calculatePoints is called with
MaxZombieCount == 4
\* the largest total a tier is looked up for, beyond the last threshold
MaxExtraPoints == 400000
\* the longest dormancy scored, in days
MaxDormancyDays == 200
\* the largest balance scored, in hundredths of a token
MaxBalance == 3300
\* the length of a dashboard session, in hours
MaxSessionHours == 73
\* the most assets a scan of the dashboard session finds
MaxFound == 2
\* the length of a claim session, in hours
MaxClaimHours == 49
\* the most claims started and entries recorded in a claim session
MaxClaimEntries == 3
\* the length of a per-asset cooldown session, in hours
MaxCooldownHours == 27
\* the length of a session of adapter calls, in hours
MaxAdapterHours == 49
\* the most a wallet claims from the mock adapter in a session
MaxMockClaimed == 200
\* the number of fireScanEvent calls followed on one useZombieClaim instance
MaxScanCalls == 3

\* ------------------------------------------------------- program constants
\* CACHE_TTL_MS is 5 * 60 * 1000 ms: five units of the model's clock (minutes).
CACHE_TTL_MS == 5
\* the scanner looks up dormancy only for mints whose index in tokenMints is < 5
DormancyLimit == 5
\* 1000 * 60 * 60 * 24 ms, in the hours the points model counts
HoursPerDay == 24
\* Math.min(daysActive, 365)
DaysCap == 365
\* COOLDOWN_MS of ClaimButton, in hours
COOLDOWN_MS == 24
\* CLAIM_COOLDOWN_MS of the store, in hours
CLAIM_COOLDOWN_MS == 24
\* the clock step of a claim session, in hours
ClaimStep == 12
\* one step of the hook model's clock takes a cache entry past its time to live
TickStep == CACHE_TTL_MS + 1

\* --------------------------------------------------------------- universes
Hooks == {"ZombieDashboard", "DevDebugPanel"}
Wallets == {"wA", "wB"}
NoWallet == "none"
Networks == {"devnet", "mainnet-beta"}
\* an absent Map entry (scanCache.get(addr) === undefined)
NoEntry == [assets |-> << >>, timestamp |-> -1, network |-> "none"]
\* an undefined number (balance of an NFT, usdValue without a price, ...)
Undef == -1
NoScore == [base |-> Undef, balanceMultiplier |-> Undef, dormancyBonus |-> Undef,
            categoryRate |-> Undef, total |-> Undef]

\* ============================================================ scan cache
\* scanCache.get(walletAddress) followed by the three checks of getCachedResult.
\* The result is a record: found = FALSE stands for null.
CacheMiss == [found |-> FALSE, assets |-> << >>]

\* getCachedResult without the check of the entry's network
getCachedResult_AnyNetwork(cache, currentNetwork, dateNow, walletAddress) ==
  LET entry == cache[walletAddress] IN
  IF entry = NoEntry THEN CacheMiss
  ELSE IF dateNow - entry.timestamp > CACHE_TTL_MS THEN CacheMiss
  ELSE [found |-> TRUE, assets |-> entry.assets]

getCachedResult(cache, currentNetwork, dateNow, walletAddress) ==
  LET entry == cache[walletAddress] IN
  IF entry = NoEntry THEN CacheMiss
  ELSE IF entry.network # currentNetwork THEN CacheMiss
  ELSE IF dateNow - entry.timestamp > CACHE_TTL_MS THEN CacheMiss
  ELSE [found |-> TRUE, assets |-> entry.assets]

\* the eviction of getCachedResult with age >= CACHE_TTL_MS for age > CACHE_TTL_MS
cacheAfterGet_EvictsAtTtl(cache, currentNetwork, dateNow, walletAddress) ==
  LET entry == cache[walletAddress] IN
  IF entry = NoEntry THEN cache
  ELSE IF entry.network # currentNetwork THEN cache
  ELSE IF dateNow - entry.timestamp >= CACHE_TTL_MS
       THEN [cache EXCEPT ![walletAddress] = NoEntry]
  ELSE cache

\* the cache after getCachedResult: only the expiry branch deletes the entry
cacheAfterGet(cache, currentNetwork, dateNow, walletAddress) ==
  LET entry == cache[walletAddress] IN
  IF entry = NoEntry THEN cache
  ELSE IF entry.network # currentNetwork THEN cache
  ELSE IF dateNow - entry.timestamp > CACHE_TTL_MS
       THEN [cache EXCEPT ![walletAddress] = NoEntry]
  ELSE cache

cacheResult(cache, currentNetwork, dateNow, walletAddress, assets) ==
  [cache EXCEPT ![walletAddress] =
     [assets |-> assets, timestamp |-> dateNow, network |-> currentNetwork]]

cacheDelete(cache, walletAddress) ==
  [cache EXCEPT ![walletAddress] = NoEntry]

\* ======================================================== points engine
\* CATEGORY_RATES
CATEGORY_RATES(category) ==
  CASE category = "dust_token"    -> 5
    [] category = "dormant_token" -> 15
    [] category = "abandoned_nft" -> 20
    [] category = "dead_project"  -> 25

RECURSIVE ILog2(_)
\* floor(log2(n)) for n >= 1
ILog2(n) == IF n < 2 THEN 0 ELSE 1 + ILog2(n \div 2)

RECURSIVE Pow2(_)
Pow2(k) == IF k = 0 THEN 1 ELSE 2 * Pow2(k - 1)

RECURSIVE Pow10(_)
Pow10(k) == IF k = 0 THEN 1 ELSE 10 * Pow10(k - 1)

\* the mantissa of n as a fixed-point number with 14 fraction bits, in [2^14, 2^15)
Mantissa(n) ==
  LET k == ILog2(n) IN
  IF k >= 14 THEN n \div Pow2(k - 14) ELSE n * Pow2(14 - k)

RECURSIVE FracBits(_, _)
\* the first `bits` fraction bits of log2(m / 2^14), by repeated squaring
FracBits(m, bits) ==
  IF bits = 0 THEN 0
  ELSE LET sq == (m * m) \div 16384 IN
       IF sq >= 32768
       THEN Pow2(bits - 1) + FracBits(sq \div 2, bits - 1)
       ELSE FracBits(sq, bits - 1)

\* Math.log2(n) for an integer n >= 1, in units of 1/4096
Log2Q12(n) == ILog2(n) * 4096 + FracBits(Mantissa(n), 12)

\* Math.log2(balance + 1) in thousandths, balance given in hundredths of a token
Log2BalancePlus1(balanceCenti) ==
  ((Log2Q12(balanceCenti + 100) - Log2Q12(100)) * 1000) \div 4096

Min(a, b) == IF a < b THEN a ELSE b
Max(a, b) == IF a > b THEN a ELSE b

\* balanceMultiplier without the lower clamp Math.max(..., 1)
balanceMultiplier_NoFloor(balance) ==
  LET b == IF balance = Undef THEN 100 ELSE balance IN
  Min(Log2BalancePlus1(b), 5000)

\* balanceMultiplier of calculateZombieScore, in thousandths; an absent balance
\* (asset.balance ?? 1) counts as one token
balanceMultiplier(balance) ==
  LET b == IF balance = Undef THEN 100 ELSE balance IN
  Min(Max(Log2BalancePlus1(b), 1000), 5000)

\* dormancyBonus without the cap Math.min(..., 3)
dormancyBonus_NoCap(lastActivityDaysAgo) ==
  IF lastActivityDaysAgo = Undef THEN 0 ELSE lastActivityDaysAgo

\* dormancyBonus of calculateZombieScore, in sixtieths: Math.min(d / 30 * 0.5, 3)
dormancyBonus(lastActivityDaysAgo) ==
  LET d == IF lastActivityDaysAgo = Undef THEN 0 ELSE lastActivityDaysAgo IN
  Min(d, 180)

\* Math.round of num / den for num >= 0
RoundDiv(num, den) == (2 * num + den) \div (2 * den)

calculateZombieScore(asset) ==
  LET categoryRate == IF asset.category = "undefined" THEN 10
                      ELSE CATEGORY_RATES(asset.category)
      bm == balanceMultiplier(asset.balance)
      db == dormancyBonus(asset.lastActivityDaysAgo)
  IN [base |-> categoryRate, balanceMultiplier |-> bm, dormancyBonus |-> db,
      categoryRate |-> categoryRate,
      total |-> RoundDiv(categoryRate * bm * (60 + db), 60000)]

\* ============================================================ allowlist
\* String.prototype.toLowerCase on the mint identifiers of the model
ToLowerCase(s) ==
  CASE s = "DezXAZ8z" -> "dezxaz8z"
    [] s = "7GCihgDB" -> "7gcihgdb"
    [] s = "EKpQGSJt" -> "ekpqgsjt"
    [] s = "JUPyiwrY" -> "jupyiwry"
    [] s = "rndrizKT" -> "rndrizkt"
    [] s = "So111111" -> "so111111"
    [] s = "NftHowl1" -> "nfthowl1"
    [] OTHER -> s

\* ZOMBIE_TOKEN_MINTS (the first eight characters of each mint)
ZOMBIE_TOKEN_MINTS == <<"DezXAZ8z", "7GCihgDB", "EKpQGSJt", "JUPyiwrY", "rndrizKT">>

\* new Set(ZOMBIE_TOKEN_MINTS.map((mint) => mint.toLowerCase()))
zombieTokenSet == {ToLowerCase(ZOMBIE_TOKEN_MINTS[i]) : i \in 1..Len(ZOMBIE_TOKEN_MINTS)}

NoMetadata == [symbol |-> "undefined", name |-> "undefined"]

\* the tokenMetadata record: its keys are the mints as written (mixed case)
tokenMetadata(key) ==
  CASE key = "DezXAZ8z" -> [symbol |-> "BONK", name |-> "Bonk"]
    [] key = "7GCihgDB" -> [symbol |-> "POPCAT", name |-> "Popcat"]
    [] key = "EKpQGSJt" -> [symbol |-> "WIF", name |-> "dogwifhat"]
    [] key = "JUPyiwrY" -> [symbol |-> "JUP", name |-> "Jupiter"]
    [] key = "rndrizKT" -> [symbol |-> "RNDR", name |-> "Render Token"]
    [] OTHER -> NoMetadata

\* getTokenMetadata: tokenMetadata[mint.toLowerCase()]
getTokenMetadata(mint) == tokenMetadata(ToLowerCase(mint))

\* the dead-project allowlist (config/zombieAllowlist, revision with isDeadProjectMint)
DeadProjectMints == {"rndrizKT"}

isDeadProjectMint(mint) == mint \in DeadProjectMints

\* ================================================================ scanner
\* parseTokenAccountData: mint = bytes 0..31, amount = u64 at offset 64,
\* decimals = the byte at offset 44 (a byte of the owner field)
parseTokenAccountData(data) ==
  [mint |-> data.mint, amount |-> data.amount, decimals |-> data.byte44]

shouldFilterToken(amount) == amount = 0

\* Number(amount) / Math.pow(10, decimals), in hundredths of a token
TokenBalance(amount, decimals) == (amount * 100) \div Pow10(decimals)

\* the token loop without the zero-balance filter and with amount >= 0n
TokenAssetOf_KeepsEmpty(data) ==
  LET p == parseTokenAccountData(data)
      metadata == getTokenMetadata(p.mint)
  IN IF ToLowerCase(p.mint) \in zombieTokenSet /\ p.amount >= 0
     THEN << [type |-> "token", mint |-> p.mint,
              name |-> IF metadata = NoMetadata THEN "Unknown Token" ELSE metadata.name,
              symbol |-> metadata.symbol,
              balance |-> TokenBalance(p.amount, p.decimals),
              status |-> "undead", category |-> "undefined", zombieScore |-> NoScore,
              usdValue |-> Undef, lastActivityDaysAgo |-> Undef] >>
     ELSE << >>

\* the asset pushed for one token account, or << >> when the account is skipped
TokenAssetOf(data) ==
  LET p == parseTokenAccountData(data)
      metadata == getTokenMetadata(p.mint)
  IN IF shouldFilterToken(p.amount) THEN << >>
     ELSE IF ToLowerCase(p.mint) \in zombieTokenSet /\ p.amount > 0
     THEN << [type |-> "token", mint |-> p.mint,
              name |-> IF metadata = NoMetadata THEN "Unknown Token" ELSE metadata.name,
              symbol |-> metadata.symbol,
              balance |-> TokenBalance(p.amount, p.decimals),
              status |-> "undead", category |-> "undefined", zombieScore |-> NoScore,
              usdValue |-> Undef, lastActivityDaysAgo |-> Undef] >>
     ELSE << >>

RECURSIVE TokenAssets(_)
\* the loop over tokenAccounts.value of scanWallet and refetch
TokenAssets(accounts) ==
  IF accounts = << >> THEN << >>
  ELSE TokenAssetOf(Head(accounts)) \o TokenAssets(Tail(accounts))

\* one NFT candidate of scanNfts: meta is what getAccountInfo + parseMetadata gave:
\* "throws", "null" (no metadata account), or the lower-cased name's class
NftAssetOf(data, meta) ==
  IF data.amount # 1 THEN << >>
  ELSE IF meta.name = "howload"
  THEN << [type |-> "nft", mint |-> data.mint, name |-> "Howload Monkey",
           symbol |-> IF meta.symbol = "" THEN "NFT" ELSE meta.symbol,
           balance |-> Undef, status |-> "undead", category |-> "undefined",
           zombieScore |-> NoScore, usdValue |-> Undef, lastActivityDaysAgo |-> Undef] >>
  ELSE IF meta.name = "howloud"
  THEN << [type |-> "nft", mint |-> data.mint, name |-> "Howloud! Monkey",
           symbol |-> IF meta.symbol = "" THEN "NFT" ELSE meta.symbol,
           balance |-> Undef, status |-> "undead", category |-> "undefined",
           zombieScore |-> NoScore, usdValue |-> Undef, lastActivityDaysAgo |-> Undef] >>
  ELSE << >>

RECURSIVE NftAssets(_, _)
NftAssets(accounts, metaOf) ==
  IF accounts = << >> THEN << >>
  ELSE NftAssetOf(Head(accounts), metaOf[Head(accounts).mint])
       \o NftAssets(Tail(accounts), metaOf)

\* scanNfts without the try/catch around each metadata lookup: one lookup that
\* throws rejects Promise.all and the outer catch returns []
scanNfts_FailsAsAWhole(resp) ==
  IF ~resp.nftQueryOk THEN << >>
  ELSE IF \E i \in 1..Len(resp.accounts) :
            /\ resp.accounts[i].amount = 1
            /\ resp.meta[resp.accounts[i].mint].name = "throws"
  THEN << >>
  ELSE NftAssets(resp.accounts, resp.meta)

\* scanNfts: its own getTokenAccountsByOwner; any error inside yields []
scanNfts(resp) ==
  IF resp.nftQueryOk THEN NftAssets(resp.accounts, resp.meta) ELSE << >>

\* classifyTokenAsset with the dust rule tested before the dead-project allowlist
classifyTokenAsset_DustFirst(mint, balance, usdPrice, dormancyDays) ==
  IF usdPrice # Undef /\ balance * usdPrice < 10000000 THEN "dust_token"
  ELSE IF isDeadProjectMint(mint) THEN "dead_project"
  ELSE "dormant_token"

\* classifyTokenAsset: usdPrice in millionths of a dollar per token (Undef: no
\* price), balance in hundredths of a token; usdValue < 0.1 dollar
classifyTokenAsset(mint, balance, usdPrice, dormancyDays) ==
  IF isDeadProjectMint(mint) THEN "dead_project"
  ELSE IF usdPrice # Undef /\ balance * usdPrice < 10000000 THEN "dust_token"
  ELSE IF dormancyDays >= 90 THEN "dormant_token"
  ELSE "dormant_token"

\* tokenMints: assets.filter(a => a.type === 'token').map(a => a.mint)
TokenMintsOf(assets) ==
  LET toks == SelectSeq(assets, LAMBDA a : a.type = "token") IN
  [i \in 1..Len(toks) |-> toks[i].mint]

\* Array.prototype.indexOf (0-based) of a value the array holds
IndexOf(seq, x) == (CHOOSE i \in 1..Len(seq) : seq[i] = x /\ \A j \in 1..(i - 1) : seq[j] # x) - 1

\* fetchTokenPrices: no request at all for an empty list; a failed request or a
\* non-ok response leaves the map empty
PriceOf(resp, tokenMints, mint) ==
  IF tokenMints = << >> \/ ~resp.priceOk THEN Undef ELSE resp.prices[mint]

\* asset.balance * usdPrice in millionths of a dollar
UsdValue(balance, usdPrice) ==
  IF usdPrice # Undef /\ balance # Undef THEN (balance * usdPrice) \div 100 ELSE Undef

\* the body of scanWallet's classify-and-score loop for one asset
ClassifyForScan(asset, tokenMints, resp) ==
  IF asset.type = "token"
  THEN LET usdPrice == PriceOf(resp, tokenMints, asset.mint)
           dormancyDays == IF IndexOf(tokenMints, asset.mint) < DormancyLimit
                           THEN resp.dormancy[asset.mint] ELSE -1
           a1 == [asset EXCEPT
                    !.usdValue = UsdValue(asset.balance, usdPrice),
                    !.lastActivityDaysAgo = IF dormancyDays >= 0 THEN dormancyDays ELSE Undef,
                    !.category = classifyTokenAsset(asset.mint,
                                   IF asset.balance = Undef THEN 0 ELSE asset.balance,
                                   usdPrice,
                                   IF dormancyDays >= 0 THEN dormancyDays ELSE 0)]
       IN [a1 EXCEPT !.zombieScore = calculateZombieScore(a1)]
  ELSE LET a1 == [asset EXCEPT !.category = "abandoned_nft"]
       IN [a1 EXCEPT !.zombieScore = calculateZombieScore(a1)]

\* the body of refetch's classify-and-score loop for one asset: no dormancy
\* lookup, classifyTokenAsset is called with dormancyDays = 0
ClassifyForRefetch(asset, tokenMints, resp) ==
  IF asset.type = "token"
  THEN LET usdPrice == PriceOf(resp, tokenMints, asset.mint)
           a1 == [asset EXCEPT
                    !.usdValue = UsdValue(asset.balance, usdPrice),
                    !.category = classifyTokenAsset(asset.mint,
                                   IF asset.balance = Undef THEN 0 ELSE asset.balance,
                                   usdPrice, 0)]
       IN [a1 EXCEPT !.zombieScore = calculateZombieScore(a1)]
  ELSE LET a1 == [asset EXCEPT !.category = "abandoned_nft"]
       IN [a1 EXCEPT !.zombieScore = calculateZombieScore(a1)]

\* the real assets of a scanWallet run, given what the ledger and the price
\* source answered
ScanAssets(resp) ==
  LET assets == TokenAssets(resp.accounts) \o scanNfts(resp)
      tokenMints == TokenMintsOf(assets)
  IN [i \in 1..Len(assets) |-> ClassifyForScan(assets[i], tokenMints, resp)]

\* the real assets of a refetch run
RefetchAssets(resp) ==
  LET assets == TokenAssets(resp.accounts) \o scanNfts(resp)
      tokenMints == TokenMintsOf(assets)
  IN [i \in 1..Len(assets) |-> ClassifyForRefetch(assets[i], tokenMints, resp)]

\* ======================================================= dev-mode assets
\* a mock asset of MOCK_ASSET_TIERS: it carries no category and no zombieScore
MockToken(mint, name, symbol, tokens) ==
  [type |-> "token", mint |-> mint, name |-> name, symbol |-> symbol,
   balance |-> tokens * 100, status |-> "undead", category |-> "undefined",
   zombieScore |-> NoScore, usdValue |-> Undef, lastActivityDaysAgo |-> Undef]

MockNft(mint, name, symbol) ==
  [type |-> "nft", mint |-> mint, name |-> name, symbol |-> symbol,
   balance |-> Undef, status |-> "undead", category |-> "undefined",
   zombieScore |-> NoScore, usdValue |-> Undef, lastActivityDaysAgo |-> Undef]

\* getMockAssetsForBalance: solBalance in hundredths of a SOL
getMockAssetsForBalance(solBalance) ==
  IF solBalance < 50 THEN << >>
  ELSE IF solBalance < 100 THEN << MockToken("DezXAZ8z", "Bonk", "BONK", 1000000) >>
  ELSE IF solBalance < 200
  THEN << MockToken("DezXAZ8z", "Bonk", "BONK", 1000000),
          MockToken("EKpQGSJt", "dogwifhat", "WIF", 500) >>
  ELSE IF solBalance < 500
  THEN << MockToken("DezXAZ8z", "Bonk", "BONK", 2000000),
          MockToken("EKpQGSJt", "dogwifhat", "WIF", 1000),
          MockToken("JUPyiwrY", "Jupiter", "JUP", 500) >>
  ELSE << MockToken("DezXAZ8z", "Bonk", "BONK", 5000000),
          MockToken("EKpQGSJt", "dogwifhat", "WIF", 2500),
          MockToken("JUPyiwrY", "Jupiter", "JUP", 1000),
          MockToken("7GCihgDB", "Popcat", "POPCAT", 750),
          MockNft("mad_lads_demo_nft_001", "Mad Lad #1337", "MADLAD") >>

\* isDevModeEnabled: true unless VITE_DISABLE_DEMO_ASSETS is 'true'
isDevModeEnabled == TRUE

RECURSIVE AddMissing(_, _)
\* the loop of injectDevModeAssets: push the mock assets whose (mint, type) is
\* not among the combined assets yet
AddMissing(combined, mocks) ==
  IF mocks = << >> THEN combined
  ELSE LET m == Head(mocks)
           alreadyExists == \E i \in 1..Len(combined) :
                              combined[i].mint = m.mint /\ combined[i].type = m.type
       IN AddMissing(IF alreadyExists THEN combined ELSE Append(combined, m), Tail(mocks))

\* injectDevModeAssets: getSolBalance answers resp.sol, or 0 when getBalance fails
injectDevModeAssets(realAssets, resp) ==
  IF ~isDevModeEnabled
  THEN [assets |-> realAssets, solBalance |-> 0, isDevMode |-> FALSE]
  ELSE [assets |-> AddMissing(realAssets, getMockAssetsForBalance(resp.sol)),
        solBalance |-> resp.sol, isDevMode |-> TRUE]

\* ============================================================ environment
Mints == {"DezXAZ8z", "7GCihgDB", "EKpQGSJt", "So111111", "NftHowl1"}

\* getNetworkFromEnv() of the build: VITE_SOLANA_NETWORK unset gives 'devnet'
getNetworkFromEnv == "devnet"

\* the token accounts the ledger holds for each wallet
Ledger(w) ==
  IF w = "wA"
  THEN << [mint |-> "DezXAZ8z", amount |-> 10, byte44 |-> 0],
          [mint |-> "7GCihgDB", amount |-> 0, byte44 |-> 0],
          [mint |-> "NftHowl1", amount |-> 1, byte44 |-> 0] >>
  ELSE << [mint |-> "EKpQGSJt", amount |-> 1000, byte44 |-> 1],
          [mint |-> "So111111", amount |-> 5, byte44 |-> 0] >>

\* what the ledger, the metadata accounts, the price source and getBalance answer
\* during one run: a low price, 180 idle days, one SOL
RichAnswers(w) ==
  [accounts |-> Ledger(w), nftQueryOk |-> TRUE,
   meta |-> [m \in Mints |-> [name |-> "howload", symbol |-> "HM"]],
   priceOk |-> TRUE, prices |-> [m \in Mints |-> 5000],
   dormancy |-> [m \in Mints |-> 180], sol |-> 100]

Answers(w) == {RichAnswers(w)}

\* the ways fetchTokenAccountsWithTimeout rejects, and the message setError gets
RpcErrors == {"timeout", "denied"}

ErrorMessage(e) ==
  CASE e = "timeout" -> "RPC request timed out. Please try again."
    [] e = "denied" -> "RPC access denied. Please check your RPC endpoint."
    [] OTHER -> "Failed to scan wallet"

\* ================================================================== state
VARIABLES
  now,             \* Date.now(), in minutes
  mounted,         \* the app route (Dashboard and DevDebugPanel) is rendered
  wallet,          \* useWallet(): the connected publicKey, or NoWallet
  scanCache,       \* the module-level Map, shared by every hook instance
  loading,         \* per hook: useState(false)
  zombieAssets,    \* per hook: useState([])
  assetsOf,        \* per hook: the wallet whose run set zombieAssets (history)
  error,           \* per hook: useState(null)
  errorOf,         \* per hook: the wallet whose run set error (history)
  scanComplete,    \* per hook: useState(false)
  isScanningRef,   \* per hook: useRef(false)
  timers,          \* per hook: the pending setTimeout callbacks
  scanTimeoutRef,  \* per hook: the id of the timer armed last, 0 for null
  run,             \* per hook: the scanWallet / refetch call in flight
  probe            \* the last direct call of a pure function and its result

vars == <<now, mounted, wallet, scanCache, loading, zombieAssets, assetsOf, error,
          errorOf, scanComplete, isScanningRef, timers, scanTimeoutRef, run, probe>>

hookVars == <<loading, zombieAssets, assetsOf, error, errorOf, scanComplete, isScanningRef,
              timers, scanTimeoutRef, run>>

NoError == "null"
IdleRun == [kind |-> "idle", phase |-> "none", publicKey |-> NoWallet, live |-> FALSE]
NoProbe == [op |-> "none"]

\* the page has loaded: the hooks are mounted, no wallet is connected, the
\* module-level cache is an empty Map
InitProgram ==
  /\ now = 0
  /\ mounted = TRUE
  /\ wallet = NoWallet
  /\ scanCache = [w \in Wallets |-> NoEntry]
  /\ loading = [h \in Hooks |-> FALSE]
  /\ zombieAssets = [h \in Hooks |-> << >>]
  /\ assetsOf = [h \in Hooks |-> NoWallet]
  /\ error = [h \in Hooks |-> NoError]
  /\ errorOf = [h \in Hooks |-> NoWallet]
  /\ scanComplete = [h \in Hooks |-> FALSE]
  /\ isScanningRef = [h \in Hooks |-> FALSE]
  /\ timers = [h \in Hooks |-> {}]
  /\ scanTimeoutRef = [h \in Hooks |-> 0]
  /\ run = [h \in Hooks |-> IdleRun]

Init ==
  /\ InitProgram
  /\ probe = NoProbe

\* ================================================================= timers
\* clearTimeout(id): a no-op for an id that is not pending
clearTimeout(ts, id) == {t \in ts : t.id # id}

\* the id setTimeout returns: the smallest one not pending
FreshId(ts) ==
  CHOOSE i \in 1..(Cardinality(ts) + 1) :
    /\ \A t \in ts : t.id # i
    /\ \A j \in 1..(i - 1) : \E t \in ts : t.id = j

\* the callback () => scanWallet() closes over the scanWallet of the render that
\* armed it: its publicKey and its scanComplete
TimerFor(ts, w, sc, cause) ==
  [id |-> FreshId(ts), publicKey |-> w, scanComplete |-> sc, armedBy |-> cause]

\* The effect [connected, publicKey, scanWallet] of hook h re-running for wallet w
\* and scanComplete sc: the previous run's cleanup (if it was a connected run),
\* then the body.  The pending timers afterwards.
EffectTimers(h, wasConnected, w, sc, cause) ==
  LET afterCleanup == IF wasConnected
                      THEN clearTimeout(timers[h], scanTimeoutRef[h]) ELSE timers[h]
      cleared == clearTimeout(afterCleanup, scanTimeoutRef[h])
  IN IF w = NoWallet THEN afterCleanup
     ELSE cleared \cup {TimerFor(cleared, w, sc, cause)}

\* scanTimeoutRef.current afterwards
EffectRef(h, wasConnected, w) ==
  LET afterCleanup == IF wasConnected
                      THEN clearTimeout(timers[h], scanTimeoutRef[h]) ELSE timers[h]
      cleared == clearTimeout(afterCleanup, scanTimeoutRef[h])
  IN IF w = NoWallet THEN scanTimeoutRef[h] ELSE FreshId(cleared)

\* only the first request of a run races a timer (fetchTokenAccountsWithTimeout)
HasTimeout(phase) == phase = "tokens"

\* ========================================================= wallet events
\* the wallet adapter reports a connection: every mounted hook re-renders and
\* its effect arms the debounce timer
Connect(w) ==
  /\ mounted /\ wallet = NoWallet
  /\ wallet' = w
  /\ timers' = [h \in Hooks |-> EffectTimers(h, FALSE, w, scanComplete[h], "connect")]
  /\ scanTimeoutRef' = [h \in Hooks |-> EffectRef(h, FALSE, w)]
  /\ UNCHANGED <<now, mounted, scanCache, loading, zombieAssets, assetsOf, error,
                 errorOf, scanComplete, isScanningRef, run, probe>>

\* the wallet disconnects: cleanup clears the timer, the body resets the state
Disconnect ==
  /\ mounted /\ wallet # NoWallet
  /\ wallet' = NoWallet
  /\ timers' = [h \in Hooks |-> EffectTimers(h, TRUE, NoWallet, FALSE, "connect")]
  /\ scanTimeoutRef' = [h \in Hooks |-> EffectRef(h, TRUE, NoWallet)]
  /\ zombieAssets' = [h \in Hooks |-> << >>]
  /\ assetsOf' = [h \in Hooks |-> NoWallet]
  /\ scanComplete' = [h \in Hooks |-> FALSE]
  /\ UNCHANGED <<now, mounted, scanCache, loading, error, errorOf, isScanningRef,
                 run, probe>>

\* the wallet adapter reports another account while connected (accountChanged):
\* publicKey changes, connected stays true; the effect re-arms the timer and
\* resets nothing
SwitchWallet(w) ==
  /\ mounted /\ wallet # NoWallet /\ wallet # w
  /\ wallet' = w
  /\ timers' = [h \in Hooks |-> EffectTimers(h, TRUE, w, scanComplete[h], "connect")]
  /\ scanTimeoutRef' = [h \in Hooks |-> EffectRef(h, TRUE, w)]
  /\ UNCHANGED <<now, mounted, scanCache, loading, zombieAssets, assetsOf, error,
                 errorOf, scanComplete, isScanningRef, run, probe>>

\* the route leaves the app: both components unmount with the wallet provider;
\* the cleanups clear the timer; a run in flight goes on without its component
Unmount ==
  /\ mounted
  /\ mounted' = FALSE
  /\ wallet' = NoWallet
  /\ timers' = [h \in Hooks |-> clearTimeout(timers[h], scanTimeoutRef[h])]
  /\ scanTimeoutRef' = [h \in Hooks |-> 0]
  /\ loading' = [h \in Hooks |-> FALSE]
  /\ zombieAssets' = [h \in Hooks |-> << >>]
  /\ assetsOf' = [h \in Hooks |-> NoWallet]
  /\ error' = [h \in Hooks |-> NoError]
  /\ errorOf' = [h \in Hooks |-> NoWallet]
  /\ scanComplete' = [h \in Hooks |-> FALSE]
  /\ isScanningRef' = [h \in Hooks |-> FALSE]
  /\ run' = [h \in Hooks |-> IF run[h].kind = "idle" THEN run[h]
                             ELSE [run[h] EXCEPT !.live = FALSE]]
  /\ UNCHANGED <<now, scanCache, probe>>

\* the route returns to the app: fresh hook instances, wallet not connected yet
\* (the model remounts once the runs of the previous instances have ended)
Mount ==
  /\ ~mounted
  /\ \A h \in Hooks : run[h].kind = "idle"
  /\ mounted' = TRUE
  /\ UNCHANGED <<now, wallet, scanCache, hookVars, probe>>

\* Time passes; the clock of the model moves TickStep minutes at a time.  A
\* debounce timer (SCAN_DEBOUNCE_MS, one second) and a request racing
\* RPC_TIMEOUT_MS (ten seconds) are over before the clock moves.
Tick ==
  /\ now + TickStep <= MaxTime
  /\ \A h \in Hooks : timers[h] = {} /\ ~HasTimeout(run[h].phase)
  /\ now' = now + TickStep
  /\ UNCHANGED <<mounted, wallet, scanCache, hookVars, probe>>

\* ============================================================== scanning
\* the guard both scanWallet and refetch open with
\* (!publicKey || !connected || isScanningRef.current), on the closure's wallet
MayStart(h, publicKey) == publicKey # NoWallet /\ ~isScanningRef[h]

\* scanWallet's cache short-circuit: cached !== null && scanComplete
CacheShortCircuit(cached, closureScanComplete) == cached.found /\ closureScanComplete

StartedRun(kind, publicKey) ==
  [kind |-> kind, phase |-> "tokens", publicKey |-> publicKey, live |-> TRUE]

\* the debounce timer t of hook h fires and calls the scanWallet it closed over
TimerFire(h, t) ==
  /\ t \in timers[h]
  /\ timers' = [timers EXCEPT ![h] = timers[h] \ {t}]
  /\ IF ~MayStart(h, t.publicKey)
     THEN UNCHANGED <<scanCache, loading, error, errorOf, isScanningRef, run>>
     ELSE LET cached == getCachedResult(scanCache, getNetworkFromEnv, now, t.publicKey) IN
          /\ scanCache' = cacheAfterGet(scanCache, getNetworkFromEnv, now, t.publicKey)
          /\ IF CacheShortCircuit(cached, t.scanComplete)
             THEN UNCHANGED <<loading, error, errorOf, isScanningRef, run>>
             ELSE /\ isScanningRef' = [isScanningRef EXCEPT ![h] = TRUE]
                  /\ loading' = [loading EXCEPT ![h] = TRUE]
                  /\ error' = [error EXCEPT ![h] = NoError]
                  /\ errorOf' = [errorOf EXCEPT ![h] = NoWallet]
                  /\ run' = [run EXCEPT ![h] = StartedRun("scanWallet", t.publicKey)]
  /\ UNCHANGED <<now, mounted, wallet, zombieAssets, assetsOf, scanComplete,
                 scanTimeoutRef, probe>>

\* the user presses Refresh on the dashboard (DevDebugPanel never calls refetch)
Refetch(h) ==
  /\ h = "ZombieDashboard"
  /\ mounted
  /\ MayStart(h, wallet)
  /\ scanCache' = cacheDelete(scanCache, wallet)
  /\ isScanningRef' = [isScanningRef EXCEPT ![h] = TRUE]
  /\ loading' = [loading EXCEPT ![h] = TRUE]
  /\ error' = [error EXCEPT ![h] = NoError]
  /\ errorOf' = [errorOf EXCEPT ![h] = NoWallet]
  /\ run' = [run EXCEPT ![h] = StartedRun("refetch", wallet)]
  /\ UNCHANGED <<now, mounted, wallet, zombieAssets, assetsOf, scanComplete,
                 timers, scanTimeoutRef, probe>>

\* The awaits of a run.  "tokens": fetchTokenAccountsWithTimeout, the only
\* request that races a timer (RPC_TIMEOUT_MS).  "rest": the awaits that follow
\* (scanNfts, fetchTokenPrices, checkDormancy, getSolBalance); the run touches
\* nothing but its local variables between them, so they are one phase, and
\* none of them races a timer.
\* getTokenAccountsByOwner answers within the timeout
TokensAnswer(h) ==
  /\ run[h].kind # "idle" /\ run[h].phase = "tokens"
  /\ run' = [run EXCEPT ![h].phase = "rest"]
  /\ UNCHANGED <<now, mounted, wallet, scanCache, loading, zombieAssets, assetsOf,
                 error, errorOf, scanComplete, isScanningRef, timers, scanTimeoutRef,
                 probe>>

\* what a run leaves in the hook when it ends with scanComplete set to true: the
\* state change re-renders, scanWallet is a new function when scanComplete
\* flipped, and the effect runs again
EndTimers(h, flipped) ==
  IF ~flipped THEN timers[h]
  ELSE EffectTimers(h, wallet # NoWallet, wallet, TRUE, "rerender")

EndRef(h, flipped) ==
  IF ~flipped THEN scanTimeoutRef[h]
  ELSE EffectRef(h, wallet # NoWallet, wallet)

\* the finally block without its two statements
ReleaseGuard_Kept(flags, h) == flags

\* the finally block of scanWallet and refetch: setLoading(false) and
\* isScanningRef.current = false, each a flag of hook h set to false
ReleaseGuard(flags, h) == [flags EXCEPT ![h] = FALSE]

\* a catch block that records the failed run as an empty result
CacheAfterFailure_CachesEmpty(cache, r) ==
  [cache EXCEPT ![r.publicKey] =
     [assets |-> << >>, timestamp |-> 0, network |-> "devnet"]]

\* what the catch block of a run writes to the cache: nothing
CacheAfterFailure(cache, r) == cache

\* the catch and finally blocks of a run: setError, setScanComplete(true),
\* setLoading(false), isScanningRef.current = false
RunFails(h, e) ==
  LET flipped == ~scanComplete[h] IN
  /\ run' = [run EXCEPT ![h] = IdleRun]
  /\ scanCache' = CacheAfterFailure(scanCache, run[h])
  /\ IF run[h].live
     THEN /\ error' = [error EXCEPT ![h] = ErrorMessage(e)]
          /\ errorOf' = [errorOf EXCEPT ![h] = run[h].publicKey]
          /\ loading' = ReleaseGuard(loading, h)
          /\ isScanningRef' = ReleaseGuard(isScanningRef, h)
          /\ timers' = [timers EXCEPT ![h] = EndTimers(h, flipped)]
          /\ scanTimeoutRef' = [scanTimeoutRef EXCEPT ![h] = EndRef(h, flipped)]
          /\ IF wallet = NoWallet /\ flipped
             THEN /\ scanComplete' = [scanComplete EXCEPT ![h] = FALSE]
                  /\ zombieAssets' = [zombieAssets EXCEPT ![h] = << >>]
                  /\ assetsOf' = [assetsOf EXCEPT ![h] = NoWallet]
             ELSE /\ scanComplete' = [scanComplete EXCEPT ![h] = TRUE]
                  /\ UNCHANGED <<zombieAssets, assetsOf>>
     ELSE UNCHANGED <<error, errorOf, loading, isScanningRef, timers, scanTimeoutRef,
                      scanComplete, zombieAssets, assetsOf>>

\* fetchTokenAccountsWithTimeout rejects: the timer won the race, the endpoint
\* refused, or the ledger could not be reached
TokensReject(h, e) ==
  /\ run[h].kind # "idle" /\ run[h].phase = "tokens"
  /\ e \in RpcErrors
  /\ RunFails(h, e)
  /\ UNCHANGED <<now, mounted, wallet, probe>>

\* the real assets a run computed from what it was answered
RealAssets(kind, resp) ==
  IF kind = "refetch" THEN RefetchAssets(resp) ELSE ScanAssets(resp)

\* cacheResult(walletAddress, assets) given the combined assets instead
CachedAssets_Combined(assets, combinedAssets) == combinedAssets

\* the array a run hands to cacheResult: assets, not combinedAssets
CachedAssets(assets, combinedAssets) == assets

\* the last request of a run is answered (resp: everything the run was
\* answered): the tail of the try block, setZombieAssets(combinedAssets),
\* setScanComplete(true), cacheResult(walletAddress, assets), then finally
RunSucceeds(h, resp) ==
  LET r == run[h]
      assets == RealAssets(r.kind, resp)
      combinedAssets == injectDevModeAssets(assets, resp).assets
      flipped == ~scanComplete[h]
  IN
  /\ r.kind # "idle" /\ r.phase = "rest"
  /\ run' = [run EXCEPT ![h] = IdleRun]
  /\ scanCache' = cacheResult(scanCache, getNetworkFromEnv, now, r.publicKey,
                            CachedAssets(assets, combinedAssets))
  /\ IF r.live
     THEN /\ loading' = ReleaseGuard(loading, h)
          /\ isScanningRef' = ReleaseGuard(isScanningRef, h)
          /\ timers' = [timers EXCEPT ![h] = EndTimers(h, flipped)]
          /\ scanTimeoutRef' = [scanTimeoutRef EXCEPT ![h] = EndRef(h, flipped)]
          /\ IF wallet = NoWallet /\ flipped
             THEN /\ scanComplete' = [scanComplete EXCEPT ![h] = FALSE]
                  /\ zombieAssets' = [zombieAssets EXCEPT ![h] = << >>]
                  /\ assetsOf' = [assetsOf EXCEPT ![h] = NoWallet]
             ELSE /\ scanComplete' = [scanComplete EXCEPT ![h] = TRUE]
                  /\ zombieAssets' = [zombieAssets EXCEPT ![h] = combinedAssets]
                  /\ assetsOf' = [assetsOf EXCEPT ![h] = r.publicKey]
     ELSE UNCHANGED <<loading, isScanningRef, timers, scanTimeoutRef, scanComplete,
                      zombieAssets, assetsOf>>
  /\ UNCHANGED <<now, mounted, wallet, error, errorOf, probe>>

Next ==
  \/ \E w \in Wallets : Connect(w)
  \/ Disconnect
  \/ \E w \in Wallets : SwitchWallet(w)
  \/ Unmount
  \/ Mount
  \/ Tick
  \/ \E h \in Hooks : \E t \in timers[h] : TimerFire(h, t)
  \/ \E h \in Hooks : Refetch(h)
  \/ \E h \in Hooks : TokensAnswer(h)
  \/ \E h \in Hooks : \E e \in RpcErrors : TokensReject(h, e)
  \/ \E h \in Hooks : \E resp \in Answers(run[h].publicKey) : RunSucceeds(h, resp)

Spec == Init /\ [][Next]_vars

\* The scheduling the code can count on: a pending timer fires, and the timer
\* racing the first request fires when the request stays unanswered.  Nothing
\* makes the ledger, the price source or any other request answer.
FairSpec ==
  /\ Spec
  /\ \A h \in Hooks : WF_vars(\E t \in timers[h] : TimerFire(h, t))
  /\ \A h \in Hooks : WF_vars(TokensReject(h, "timeout"))

\* ============================================================ the cache alone
\* getCachedResult, cacheResult and scanCache.delete called directly, by hooks
\* configured for either network, at every minute up to MaxCacheTime.  probe
\* holds the last call: its arguments, the entry it found, its result, and for
\* every address the arguments of the last cacheResult not followed by a delete.
CacheAssets == {ScanAssets(RichAnswers(w)) : w \in Wallets}

CacheInit ==
  /\ InitProgram
  /\ probe = [op |-> "none", network |-> "none", walletAddress |-> NoWallet, at |-> 0,
              entry |-> NoEntry, result |-> CacheMiss,
              stored |-> [w \in Wallets |-> NoEntry]]

CachePut(currentNetwork, walletAddress, assets) ==
  /\ scanCache' = cacheResult(scanCache, currentNetwork, now, walletAddress, assets)
  /\ probe' = [op |-> "put", network |-> currentNetwork, walletAddress |-> walletAddress,
               at |-> now, entry |-> scanCache[walletAddress], result |-> CacheMiss,
               stored |-> [probe.stored EXCEPT ![walletAddress] =
                             [assets |-> assets, timestamp |-> now,
                              network |-> currentNetwork]]]
  /\ UNCHANGED <<now, mounted, wallet, hookVars>>

CacheGet(currentNetwork, walletAddress) ==
  /\ scanCache' = cacheAfterGet(scanCache, currentNetwork, now, walletAddress)
  /\ probe' = [op |-> "get", network |-> currentNetwork, walletAddress |-> walletAddress,
               at |-> now, entry |-> scanCache[walletAddress],
               result |-> getCachedResult(scanCache, currentNetwork, now, walletAddress),
               stored |-> probe.stored]
  /\ UNCHANGED <<now, mounted, wallet, hookVars>>

CacheDelete(walletAddress) ==
  /\ scanCache' = cacheDelete(scanCache, walletAddress)
  /\ probe' = [op |-> "delete", network |-> "none", walletAddress |-> walletAddress,
               at |-> now, entry |-> scanCache[walletAddress], result |-> CacheMiss,
               stored |-> [probe.stored EXCEPT ![walletAddress] = NoEntry]]
  /\ UNCHANGED <<now, mounted, wallet, hookVars>>

CacheTick ==
  /\ now < MaxCacheTime
  /\ now' = now + 1
  /\ UNCHANGED <<mounted, wallet, scanCache, hookVars, probe>>

CacheNext ==
  \/ \E n \in Networks : \E w \in Wallets : \E a \in CacheAssets : CachePut(n, w, a)
  \/ \E n \in Networks : \E w \in Wallets : CacheGet(n, w)
  \/ \E w \in Wallets : CacheDelete(w)
  \/ CacheTick

CacheSpec == CacheInit /\ [][CacheNext]_vars

\* ====================================================== one run, start to end
\* What one scanWallet or refetch call on a fresh hook leaves behind, given how
\* the first request ended (tokens: "ok" or a rejection of RpcErrors) and what
\* the later requests answered: the error on display, the displayed assets and
\* the assets handed to cacheResult.
RunOutcome(kind, tokens, resp) ==
  IF tokens # "ok"
  THEN [error |-> ErrorMessage(tokens), displayed |-> << >>, wroteCache |-> FALSE,
        cached |-> << >>]
  ELSE LET assets == RealAssets(kind, resp) IN
       [error |-> NoError, displayed |-> injectDevModeAssets(assets, resp).assets,
        wroteCache |-> TRUE, cached |-> assets]

\* the sequences over S of length at most n
SeqsUpTo(S, n) == UNION {[1..k -> S] : k \in 0..n}

\* the mints of the probed ledgers: an allowlisted token and two NFT mints
ProbeMints == {"DezXAZ8z", "NftHowl1", "NftHowl2"}

\* token accounts as getTokenAccountsByOwner returns them: an empty account, a
\* single unit (an NFT candidate), ten units
ProbeAccounts ==
  {[mint |-> m, amount |-> a, byte44 |-> 0] : m \in ProbeMints, a \in {0, 1, 10}}

\* what parseMetadata gives for a metadata account, "null" for no account and
\* "throws" for a getAccountInfo or a decoding that throws
MetaNames == {"howload", "howloud", "other", "null", "throws"}

\* every request after the first answers: both NFT mints carry a matching name
GoodAnswers(accounts, sol) ==
  [accounts |-> accounts, nftQueryOk |-> TRUE,
   meta |-> [m \in ProbeMints |->
               [name |-> IF m = "NftHowl1" THEN "howload"
                         ELSE IF m = "NftHowl2" THEN "howloud" ELSE "other",
                symbol |-> ""]],
   priceOk |-> TRUE, prices |-> [m \in ProbeMints |-> 5000],
   dormancy |-> [m \in ProbeMints |-> 180], sol |-> sol]

\* every ledger of at most MaxAccounts accounts, every request answering
LedgerVariety ==
  {GoodAnswers(accounts, sol) : accounts \in SeqsUpTo(ProbeAccounts, MaxAccounts),
                                sol \in {0, 500}}

\* a wallet holding the token and both NFTs
FullLedger ==
  << [mint |-> "DezXAZ8z", amount |-> 10, byte44 |-> 0],
     [mint |-> "NftHowl1", amount |-> 1, byte44 |-> 0],
     [mint |-> "NftHowl2", amount |-> 1, byte44 |-> 0] >>

\* the full ledger with every way the later requests fail: the second
\* getTokenAccountsByOwner, each metadata lookup, the price request, the
\* dormancy lookups, getBalance (which then counts as 0 SOL)
FailureVariety ==
  {[accounts |-> FullLedger, nftQueryOk |-> q,
    meta |-> [m \in ProbeMints |->
                [name |-> IF m = "NftHowl1" THEN n1
                          ELSE IF m = "NftHowl2" THEN n2 ELSE "other",
                 symbol |-> ""]],
    priceOk |-> p, prices |-> [m \in ProbeMints |-> 5000],
    dormancy |-> [m \in ProbeMints |-> d], sol |-> sol] :
     q \in BOOLEAN, n1 \in MetaNames, n2 \in MetaNames, p \in BOOLEAN,
     d \in {-1, 180}, sol \in {0, 500}}

ProbeAnswers == LedgerVariety \cup FailureVariety

ScanInit ==
  /\ InitProgram
  /\ probe = [op |-> "none"]

\* one scanWallet or refetch call from its guard to its finally block
ProbeRun(kind, tokens, resp) ==
  /\ probe.op = "none"
  /\ probe' = [op |-> "run", kind |-> kind, tokens |-> tokens, resp |-> resp,
               out |-> RunOutcome(kind, tokens, resp)]
  /\ UNCHANGED <<now, mounted, wallet, scanCache, hookVars>>

\* the arguments classifyTokenAsset is probed with: a dead-project mint and an
\* ordinary allowlisted one; balances around 0.1 and 20 tokens (hundredths); no
\* price, 0, 0.005 and 1 dollar (millionths); dormancy around the 90 days
ClassifyMints == {"rndrizKT", "DezXAZ8z"}
ClassifyBalances == {0, 9, 10, 1999, 2000, 2001}
ClassifyPrices == {Undef, 0, 5000, 1000000}
ClassifyDormancy == {0, 89, 90, 365}

\* one direct call of classifyTokenAsset
ProbeClassify(mint, balance, usdPrice, dormancyDays) ==
  /\ probe.op = "none"
  /\ probe' = [op |-> "classify", mint |-> mint, balance |-> balance,
               usdPrice |-> usdPrice, dormancyDays |-> dormancyDays,
               out |-> classifyTokenAsset(mint, balance, usdPrice, dormancyDays)]
  /\ UNCHANGED <<now, mounted, wallet, scanCache, hookVars>>

\* the getSignaturesForAddress requests of one scanWallet run: one per token
\* asset whose mint's first index in tokenMints is below the limit (checkDormancy
\* issues one request per call)
DormancyQueries(assets) ==
  LET tokenMints == TokenMintsOf(assets) IN
  Cardinality({i \in 1..Len(assets) :
                 /\ assets[i].type = "token"
                 /\ IndexOf(tokenMints, assets[i].mint) < DormancyLimit})

\* ledgers of up to MaxTokenAccounts token accounts over two allowlisted mints,
\* so that several accounts hold the same mint
DormancyLedgers ==
  SeqsUpTo({[mint |-> m, amount |-> 10, byte44 |-> 0] : m \in {"DezXAZ8z", "EKpQGSJt"}},
           MaxTokenAccounts)

\* the classify-and-score loop of one scanWallet run over the given ledger
ProbeDormancy(accounts) ==
  /\ probe.op = "none"
  /\ probe' = [op |-> "dormancy", accounts |-> accounts,
               queries |-> DormancyQueries(TokenAssets(accounts))]
  /\ UNCHANGED <<now, mounted, wallet, scanCache, hookVars>>

ScanNext ==
  \/ \E kind \in {"scanWallet", "refetch"} : \E tokens \in {"ok"} \cup RpcErrors :
       \E resp \in ProbeAnswers : ProbeRun(kind, tokens, resp)
  \/ \E accounts \in DormancyLedgers : ProbeDormancy(accounts)
  \/ \E mint \in ClassifyMints : \E balance \in ClassifyBalances :
       \E usdPrice \in ClassifyPrices : \E dormancyDays \in ClassifyDormancy :
         ProbeClassify(mint, balance, usdPrice, dormancyDays)

ScanSpec == ScanInit /\ [][ScanNext]_vars

\* ====================================================== accumulated points
\* The points engine counts time in milliseconds; the model counts hours, so a
\* day (1000 * 60 * 60 * 24 ms) is HoursPerDay units and daysActive is carried
\* as elapsed hours.
RECURSIVE SumTotals(_)
\* calculatePointsPerDayFromAssets: the sum of the assets' scores, computing the
\* score of an asset that carries none
SumTotals(assets) ==
  IF assets = << >> THEN 0
  ELSE LET asset == Head(assets)
           score == IF asset.zombieScore = NoScore THEN calculateZombieScore(asset)
                    ELSE asset.zombieScore
       IN score.total + SumTotals(Tail(assets))

calculatePointsPerDayFromAssets(assets) == SumTotals(assets)

\* the part calculatePoints and calculatePointsFromAssets share: elapsedMs,
\* daysActive, totalPoints = Math.floor(pointsPerDay * daysActive), and the
\* daysActive that is reported, Math.min(daysActive, 365)
PointsResultOf(pointsPerDay, multiplier, walletConnectedAt, dateNow) ==
  LET elapsed == Max(0, dateNow - walletConnectedAt) IN
  [pointsPerDay |-> pointsPerDay,
   totalPoints |-> (pointsPerDay * elapsed) \div HoursPerDay,
   multiplier |-> multiplier,
   daysActiveHours |-> Min(elapsed, DaysCap * HoursPerDay),
   lastUpdated |-> dateNow]

\* calculatePoints with DEFAULT_POINTS_CONFIG (10 points per asset, multiplier 1)
calculatePoints(zombieCount, walletConnectedAt, dateNow) ==
  PointsResultOf(zombieCount * 10 * 1, 1, walletConnectedAt, dateNow)

calculatePointsFromAssets(assets, walletConnectedAt, dateNow) ==
  PointsResultOf(calculatePointsPerDayFromAssets(assets), 1, walletConnectedAt, dateNow)

\* an asset as the scanner scores it: a dead-project token, one token held
ScoredAsset(mint) ==
  LET a == [type |-> "token", mint |-> mint, name |-> "Unknown Token",
            symbol |-> "undefined", balance |-> 100, status |-> "undead",
            category |-> "dead_project", zombieScore |-> NoScore,
            usdValue |-> Undef, lastActivityDaysAgo |-> Undef]
  IN [a EXCEPT !.zombieScore = calculateZombieScore(a)]

\* the asset sets the points are computed for: none, three scored assets (75
\* points a day), the assets of a scan with its unscored demo assets
PointsAssets ==
  { << >>,
    << ScoredAsset("rndrizKT"), ScoredAsset("DezXAZ8z"), ScoredAsset("EKpQGSJt") >>,
    injectDevModeAssets(ScanAssets(RichAnswers("wA")), RichAnswers("wA")).assets }

\* the instants (hours) the points are computed at: up to two days, and around
\* the 365th day after hour 0
PointsTimes ==
  {0, 1, 24, 36, 48} \cup {DaysCap * HoursPerDay + d : d \in {-24, 0, 1, 24, MaxExtraHours}}

PointsInit ==
  /\ InitProgram
  /\ probe = [op |-> "none"]

\* one call of calculatePointsFromAssets
ProbePointsFromAssets(assets, walletConnectedAt, dateNow) ==
  /\ probe.op = "none"
  /\ probe' = [op |-> "points", pointsPerDay |-> calculatePointsPerDayFromAssets(assets),
               walletConnectedAt |-> walletConnectedAt, dateNow |-> dateNow,
               out |-> calculatePointsFromAssets(assets, walletConnectedAt, dateNow)]
  /\ UNCHANGED <<now, mounted, wallet, scanCache, hookVars>>

\* one call of calculatePoints
ProbeCalculatePoints(zombieCount, walletConnectedAt, dateNow) ==
  /\ probe.op = "none"
  /\ probe' = [op |-> "points", pointsPerDay |-> zombieCount * 10,
               walletConnectedAt |-> walletConnectedAt, dateNow |-> dateNow,
               out |-> calculatePoints(zombieCount, walletConnectedAt, dateNow)]
  /\ UNCHANGED <<now, mounted, wallet, scanCache, hookVars>>

\* ------------------------------------------------------------------- tiers
\* POINTS_TIERS, ascending
POINTS_TIERS ==
  << [name |-> "Rookie", minPoints |-> 0],
     [name |-> "Veteran", minPoints |-> 10000],
     [name |-> "Elite", minPoints |-> 50000],
     [name |-> "Legend", minPoints |-> 100000] >>

RECURSIVE TierFrom(_, _)
\* the loop of getTierForPoints from index i (1-based) down to the first tier
TierFrom(i, totalPoints) ==
  IF i < 1 THEN "Rookie"
  ELSE IF totalPoints >= POINTS_TIERS[i].minPoints THEN POINTS_TIERS[i].name
  ELSE TierFrom(i - 1, totalPoints)

\* getTierForPoints with the loop returning the first tier it tests from below
getTierForPoints_FirstFromBelow(totalPoints) ==
  IF \E i \in 1..Len(POINTS_TIERS) : totalPoints >= POINTS_TIERS[i].minPoints
  THEN POINTS_TIERS[CHOOSE i \in 1..Len(POINTS_TIERS) :
                      /\ totalPoints >= POINTS_TIERS[i].minPoints
                      /\ \A j \in 1..(i - 1) : totalPoints < POINTS_TIERS[j].minPoints].name
  ELSE "Rookie"

getTierForPoints(totalPoints) == TierFrom(Len(POINTS_TIERS), totalPoints)

\* the tier mockFetchTorquePoints computes inline
mockFetchTorquePointsTier(totalPoints) ==
  LET t1 == IF totalPoints >= 10000 THEN "Veteran" ELSE "Rookie"
      t2 == IF totalPoints >= 50000 THEN "Elite" ELSE t1
  IN IF totalPoints >= 100000 THEN "Legend" ELSE t2

\* the totals the tiers are looked up for: below zero, around every threshold,
\* and beyond the last one
TierPoints ==
  {-1, 1, 5000} \cup {POINTS_TIERS[i].minPoints + d : i \in 1..Len(POINTS_TIERS), d \in {-1, 0, 1}}
    \cup {100000 + MaxExtraPoints}

ProbeTier(totalPoints) ==
  /\ probe.op = "none"
  /\ probe' = [op |-> "tier", totalPoints |-> totalPoints,
               out |-> getTierForPoints(totalPoints),
               mock |-> mockFetchTorquePointsTier(totalPoints)]
  /\ UNCHANGED <<now, mounted, wallet, scanCache, hookVars>>

\* ----------------------------------------------------- the score's factors
\* calculateZombieScore for a token of the given dormancy: its dormancyBonus
ProbeDormancyBonus(d) ==
  /\ probe.op = "none"
  /\ probe' = [op |-> "dormancyBonus", dormancyDays |-> d, out |-> dormancyBonus(d),
               next |-> dormancyBonus(d + 1)]
  /\ UNCHANGED <<now, mounted, wallet, scanCache, hookVars>>

\* calculateZombieScore for a token of the given balance (hundredths of a
\* token, Undef for an absent balance): its balanceMultiplier
ProbeBalanceMultiplier(b) ==
  /\ probe.op = "none"
  /\ probe' = [op |-> "balanceMultiplier", balance |-> b, out |-> balanceMultiplier(b),
               next |-> balanceMultiplier(IF b = Undef THEN 100 ELSE b + 1)]
  /\ UNCHANGED <<now, mounted, wallet, scanCache, hookVars>>

PointsNext ==
  \/ \E assets \in PointsAssets : \E t0 \in PointsTimes : \E t1 \in PointsTimes :
       ProbePointsFromAssets(assets, t0, t1)
  \/ \E n \in 0..MaxZombieCount : \E t0 \in PointsTimes : \E t1 \in PointsTimes :
       ProbeCalculatePoints(n, t0, t1)
  \/ \E totalPoints \in TierPoints : ProbeTier(totalPoints)
  \/ \E d \in 0..MaxDormancyDays : ProbeDormancyBonus(d)
  \/ \E b \in {Undef} \cup 0..MaxBalance : ProbeBalanceMultiplier(b)

PointsSpec == PointsInit /\ [][PointsNext]_vars

\* ============================================================ dashboard
\* ZombieDashboard: the connection time it keeps for the points, and the points
\* it fetches with it. Time is counted in hours, as in the points engine, and
\* starts at 1 (Date.now() is never 0, which !walletConnectedAt would take for
\* an unset time). The state is carried in probe: dateNow, totalFound (the
\* scanner's count), walletConnectedAt and pointsData (the component's state),
\* and two history fields, firstConnectedAt (the first time walletConnectedAt
\* was set) and atDisconnect (the pointsData on display at the last disconnect).
NoPointsData ==
  [totalPoints |-> Undef, pointsPerDay |-> Undef, availableToClaim |-> Undef,
   lastUpdated |-> Undef, tier |-> "none"]

\* TorqueRewardsAdapter.getUserPoints without the minimum of one day's worth
getUserPoints_NoMinimum(zombieCount, walletConnectedAt, dateNow) ==
  LET points == calculatePoints(zombieCount, walletConnectedAt, dateNow)
  IN [totalPoints |-> points.totalPoints, pointsPerDay |-> points.pointsPerDay,
      availableToClaim |-> points.totalPoints, lastUpdated |-> dateNow,
      tier |-> getTierForPoints(points.totalPoints)]

\* TorqueRewardsAdapter.getUserPoints, the default rewardsClient
getUserPoints(zombieCount, walletConnectedAt, dateNow) ==
  LET points == calculatePoints(zombieCount, walletConnectedAt, dateNow)
      minPoints == IF points.pointsPerDay > 0 THEN Max(points.pointsPerDay, 1) ELSE 0
      effectivePoints == Max(points.totalPoints, minPoints)
  IN [totalPoints |-> effectivePoints, pointsPerDay |-> points.pointsPerDay,
      availableToClaim |-> effectivePoints, lastUpdated |-> dateNow,
      tier |-> getTierForPoints(effectivePoints)]

\* the steps the clock of a session advances by: half a day, a day
SessionSteps == {12, HoursPerDay}

DashboardInit ==
  /\ InitProgram
  /\ probe = [op |-> "none", dateNow |-> 1, totalFound |-> 0,
              walletConnectedAt |-> Undef, pointsData |-> NoPointsData,
              firstConnectedAt |-> Undef, atDisconnect |-> NoPointsData]

\* the wallet connects: the effect sets walletConnectedAt when it is unset
DashboardConnect(w) ==
  /\ wallet = NoWallet
  /\ wallet' = w
  /\ LET at == IF probe.walletConnectedAt = Undef THEN probe.dateNow
               ELSE probe.walletConnectedAt
     IN probe' = [probe EXCEPT !.op = "connect", !.walletConnectedAt = at,
                               !.firstConnectedAt =
                                  IF @ = Undef THEN at ELSE @]
  /\ UNCHANGED <<now, mounted, scanCache, hookVars>>

\* the wallet disconnects: the effect clears walletConnectedAt and pointsData,
\* and the scanner clears its assets
DashboardDisconnect ==
  /\ wallet # NoWallet
  /\ wallet' = NoWallet
  /\ probe' = [probe EXCEPT !.op = "disconnect", !.walletConnectedAt = Undef,
                            !.pointsData = NoPointsData, !.totalFound = 0,
                            !.atDisconnect = probe.pointsData]
  /\ UNCHANGED <<now, mounted, scanCache, hookVars>>

\* a scan of the connected wallet ends with n assets
DashboardScan(n) ==
  /\ wallet # NoWallet
  /\ probe.totalFound # n
  /\ probe' = [probe EXCEPT !.op = "scan", !.totalFound = n]
  /\ UNCHANGED <<now, mounted, wallet, scanCache, hookVars>>

\* fetchPoints, from the effect or from handleClaimSuccess, both of which need
\* assets on display
fetchPoints ==
  /\ wallet # NoWallet
  /\ probe.totalFound > 0
  /\ probe' = [probe EXCEPT !.op = "fetchPoints",
                 !.pointsData =
                    getUserPoints(probe.totalFound,
                                  IF probe.walletConnectedAt = Undef THEN probe.dateNow
                                  ELSE probe.walletConnectedAt,
                                  probe.dateNow)]
  /\ UNCHANGED <<now, mounted, wallet, scanCache, hookVars>>

DashboardTick(step) ==
  /\ probe.dateNow + step <= MaxSessionHours
  /\ probe' = [probe EXCEPT !.op = "tick", !.dateNow = @ + step]
  /\ UNCHANGED <<now, mounted, wallet, scanCache, hookVars>>

DashboardNext ==
  \/ \E w \in Wallets : DashboardConnect(w)
  \/ DashboardDisconnect
  \/ \E n \in 0..MaxFound : DashboardScan(n)
  \/ fetchPoints
  \/ \E step \in SessionSteps : DashboardTick(step)

DashboardSpec == DashboardInit /\ [][DashboardNext]_vars

\* ========================================================== claim button
\* ClaimButton and the store's claim history. Time is counted in hours and
\* starts at 1; the 500 ms of a claim and the 2 s of the timer that returns the
\* button to idle pass within an hour, so they are steps without a clock change.
\* The state is carried in probe: dateNow; the store's lastClaimTimestamp and
\* claimHistory (the entries' timestamps, newest first); rendered (the dashboard
\* renders the button); claimState (the instance's useState); own (the
\* claimRewards calls in flight that the rendered instance started); orphan
\* (those started by an instance since unmounted); resetTimers (the pending
\* setTimeout(() => setClaimState('idle'), 2000) of the rendered instance).
\* The component renders again after every change of its state or of the store,
\* and every second while on cooldown, so onCooldown is read at the current time.
onCooldown(lastClaimTimestamp, dateNow) ==
  LET timeSinceLastClaim == dateNow - lastClaimTimestamp
  IN lastClaimTimestamp # Undef /\ timeSinceLastClaim < COOLDOWN_MS

isDisabled(claimState, lastClaimTimestamp, dateNow) ==
  claimState = "loading" \/ onCooldown(lastClaimTimestamp, dateNow)

\* useAppStore.addClaimEntry
addClaimEntry(state, timestamp) ==
  [state EXCEPT !.claimHistory = <<timestamp>> \o @, !.lastClaimTimestamp = timestamp]

ClaimInit ==
  /\ InitProgram
  /\ probe = [op |-> "none", dateNow |-> 1, lastClaimTimestamp |-> Undef,
              claimHistory |-> << >>, rendered |-> FALSE, claimState |-> "idle",
              own |-> 0, orphan |-> 0, resetTimers |-> 0]

\* the dashboard renders the button: a wallet is connected, assets were found
\* and no scan is running; the instance starts idle
ClaimButtonMount(w) ==
  /\ ~probe.rendered
  /\ wallet' = w
  /\ probe' = [probe EXCEPT !.op = "mount", !.rendered = TRUE, !.claimState = "idle"]
  /\ UNCHANGED <<now, mounted, scanCache, hookVars>>

\* the dashboard stops rendering the button (a refresh starts a scan, or the
\* wallet disconnects): the instance's state and timers go, its calls go on
ClaimButtonUnmount ==
  /\ probe.rendered
  /\ probe' = [probe EXCEPT !.op = "unmount", !.rendered = FALSE, !.claimState = "idle",
                            !.orphan = @ + probe.own, !.own = 0, !.resetTimers = 0]
  /\ UNCHANGED <<now, mounted, wallet, scanCache, hookVars>>

\* handleClick up to the await, on a button that is not disabled
handleClick ==
  /\ probe.rendered
  /\ wallet # NoWallet
  /\ ~isDisabled(probe.claimState, probe.lastClaimTimestamp, probe.dateNow)
  /\ ~onCooldown(probe.lastClaimTimestamp, probe.dateNow)
  /\ Len(probe.claimHistory) + probe.own + probe.orphan + probe.resetTimers
       < MaxClaimEntries
  /\ probe' = [probe EXCEPT !.op = "click", !.claimState = "loading", !.own = @ + 1]
  /\ UNCHANGED <<now, mounted, wallet, scanCache, hookVars>>

\* claimRewards of the rendered instance resolves with success
ClaimSucceeds ==
  /\ probe.own > 0
  /\ probe' = [addClaimEntry(probe, probe.dateNow) EXCEPT
                 !.op = "success", !.claimState = "success", !.own = @ - 1,
                 !.resetTimers = @ + 1]
  /\ UNCHANGED <<now, mounted, wallet, scanCache, hookVars>>

\* claimRewards of the rendered instance rejects, or resolves without success
ClaimFails ==
  /\ probe.own > 0
  /\ probe' = [probe EXCEPT !.op = "failure", !.claimState = "error", !.own = @ - 1,
                            !.resetTimers = @ + 1]
  /\ UNCHANGED <<now, mounted, wallet, scanCache, hookVars>>

\* claimRewards of an unmounted instance settles: the entry is added to the
\* store on success, the state updates do nothing
OrphanSettles(success) ==
  /\ probe.orphan > 0
  /\ probe' = [(IF success THEN addClaimEntry(probe, probe.dateNow) ELSE probe) EXCEPT
                 !.op = "orphan", !.orphan = @ - 1]
  /\ UNCHANGED <<now, mounted, wallet, scanCache, hookVars>>

\* a timer of the rendered instance fires: setClaimState('idle')
ClaimResetTimer ==
  /\ probe.resetTimers > 0
  /\ probe' = [probe EXCEPT !.op = "timer", !.claimState = "idle", !.resetTimers = @ - 1]
  /\ UNCHANGED <<now, mounted, wallet, scanCache, hookVars>>

ClaimTick ==
  /\ probe.dateNow + ClaimStep <= MaxClaimHours
  /\ probe' = [probe EXCEPT !.op = "tick", !.dateNow = @ + ClaimStep]
  /\ UNCHANGED <<now, mounted, wallet, scanCache, hookVars>>

ClaimNext ==
  \/ \E w \in Wallets : ClaimButtonMount(w)
  \/ ClaimButtonUnmount
  \/ handleClick
  \/ ClaimSucceeds
  \/ ClaimFails
  \/ \E success \in BOOLEAN : OrphanSettles(success)
  \/ ClaimResetTimer
  \/ ClaimTick

ClaimSpec == ClaimInit /\ [][ClaimNext]_vars

\* ========================================================= claim fallback
\* claimViaTorque of useZombieClaim, and claimViaTorque of TorqueRewardsAdapter.
\* A result is what a call gives its caller: a ClaimResult it returned, or the
\* error it threw. The state is carried in probe: claiming (the hook's
\* useState), calls (per caller, the call of the hook's claimViaTorque it has in
\* flight or finished: its phase, its points argument, whether its Torque path
\* failed, what rewardsClient.claimRewards gave it, and its result) and adapter
\* (the last call of the adapter's claimViaTorque).
Callers == {"c1", "c2"}

NoResult ==
  [kind |-> "none", success |-> FALSE, claimedAmount |-> 0,
   transactionSignature |-> "", error |-> "none"]

Returned(success, claimedAmount, transactionSignature) ==
  [kind |-> "returned", success |-> success, claimedAmount |-> claimedAmount,
   transactionSignature |-> transactionSignature, error |-> "none"]

Threw(err) ==
  [kind |-> "threw", success |-> FALSE, claimedAmount |-> 0,
   transactionSignature |-> "", error |-> err]

\* a || b on signatures
OrElse(signature, other) == IF signature = "" THEN other ELSE signature

\* TorqueRewardsAdapter.claimRewards, the local claim, for the availableToClaim
\* of the last points data (0 when there is none)
claimRewards(availableToClaim) == Returned(TRUE, availableToClaim, "local_claim")

\* what rewardsClient.claimRewards gives the hook: the local claim of the
\* adapter, or, as the RewardsAdapter interface allows, a rejection
ClaimAmounts == {0, 20}
LocalOutcomes == {claimRewards(a) : a \in ClaimAmounts} \cup {Threw("local")}

\* what executeAction gives: a signature, an empty one, or an error
ExecuteOutcomes == {"sig", "", "throws"}

\* the hook's catch (torqueError): the result of rewardsClient.claimRewards with
\* the Torque error propagated instead
FallbackResult_Propagates(outcome) == Threw("torque")

\* the hook's catch (torqueError): the result of rewardsClient.claimRewards,
\* with a signature filled in when it has none
FallbackResult(outcome) ==
  IF outcome.kind = "threw" THEN outcome
  ELSE [outcome EXCEPT !.transactionSignature = OrElse(@, "fallback")]

\* TorqueRewardsAdapter.claimViaTorque as a whole: startOfferFn, executeActionFn,
\* and on an error of either the local claimRewards
AdapterClaimViaTorque(availableToClaim, startThrows, executeOutcome) ==
  IF startThrows \/ executeOutcome = "throws" THEN claimRewards(availableToClaim)
  ELSE Returned(TRUE, availableToClaim, OrElse(executeOutcome, "torque"))

IdleCall ==
  [phase |-> "idle", points |-> 0, torqueFailed |-> FALSE, local |-> NoResult,
   result |-> NoResult]

FallbackInit ==
  /\ InitProgram
  /\ probe = [op |-> "none", claiming |-> FALSE, calls |-> [c \in Callers |-> IdleCall],
              adapter |-> [torqueFailed |-> FALSE, local |-> NoResult,
                           result |-> NoResult]]

\* claimViaTorque of the hook up to its first await
claimViaTorque(c, points, isTorqueClaim, hasOfferId) ==
  /\ probe.calls[c].phase \in {"idle", "done"}
  /\ probe' = [probe EXCEPT !.op = "claimViaTorque", !.claiming = TRUE,
                 !.calls[c] = [IdleCall EXCEPT
                    !.phase = IF isTorqueClaim /\ hasOfferId THEN "startOffer" ELSE "local",
                    !.points = points]]
  /\ UNCHANGED <<now, mounted, wallet, scanCache, hookVars>>

\* startOfferAsync settles
StartOfferSettles(c, throws) ==
  /\ probe.calls[c].phase = "startOffer"
  /\ probe' = [probe EXCEPT !.op = "startOffer",
                 !.calls[c].phase = IF throws THEN "fallback" ELSE "executeAction",
                 !.calls[c].torqueFailed = throws]
  /\ UNCHANGED <<now, mounted, wallet, scanCache, hookVars>>

\* executeAction settles: the call returns the Torque result, or falls back
ExecuteActionSettles(c, outcome) ==
  /\ probe.calls[c].phase = "executeAction"
  /\ probe' =
       IF outcome = "throws"
       THEN [probe EXCEPT !.op = "executeAction", !.calls[c].phase = "fallback",
                          !.calls[c].torqueFailed = TRUE]
       ELSE [probe EXCEPT !.op = "executeAction", !.calls[c].phase = "done",
                          !.calls[c].result =
                             Returned(TRUE, probe.calls[c].points, OrElse(outcome, "torque")),
                          !.claiming = FALSE]
  /\ UNCHANGED <<now, mounted, wallet, scanCache, hookVars>>

\* rewardsClient.claimRewards settles, on the fallback path or the local one;
\* finally setClaiming(false)
ClaimRewardsSettles(c, outcome) ==
  /\ probe.calls[c].phase \in {"fallback", "local"}
  /\ probe' = [probe EXCEPT !.op = "claimRewards", !.calls[c].phase = "done",
                 !.calls[c].local = outcome,
                 !.calls[c].result = IF probe.calls[c].phase = "fallback"
                                     THEN FallbackResult(outcome) ELSE outcome,
                 !.claiming = FALSE]
  /\ UNCHANGED <<now, mounted, wallet, scanCache, hookVars>>

\* one call of the adapter's claimViaTorque
AdapterCall(availableToClaim, startThrows, executeOutcome) ==
  /\ probe' = [probe EXCEPT !.op = "adapter",
                 !.adapter = [torqueFailed |-> startThrows \/ executeOutcome = "throws",
                              local |-> claimRewards(availableToClaim),
                              result |-> AdapterClaimViaTorque(availableToClaim,
                                            startThrows, executeOutcome)]]
  /\ UNCHANGED <<now, mounted, wallet, scanCache, hookVars>>

FallbackNext ==
  \/ \E c \in Callers : \E points \in ClaimAmounts : \E t \in BOOLEAN : \E o \in BOOLEAN :
       claimViaTorque(c, points, t, o)
  \/ \E c \in Callers : \E throws \in BOOLEAN : StartOfferSettles(c, throws)
  \/ \E c \in Callers : \E outcome \in ExecuteOutcomes : ExecuteActionSettles(c, outcome)
  \/ \E c \in Callers : \E outcome \in LocalOutcomes : ClaimRewardsSettles(c, outcome)
  \/ \E a \in ClaimAmounts : \E s \in BOOLEAN : \E e \in ExecuteOutcomes :
       AdapterCall(a, s, e)

FallbackSpec == FallbackInit /\ [][FallbackNext]_vars

\* ======================================================= per-asset cooldown
\* claimedAssetTimestamps of the store with markAssetsClaimed, and the two
\* functions that read it. Time is counted in hours and starts at 1. The state
\* is carried in probe: dateNow, claimedAssetTimestamps (per mint, Undef for a
\* mint without an entry), and the call of the two functions made in the present
\* state of the store, if any: its assets and what getClaimableAssets and
\* getNextClaimableTime returned (Undef: null).
ClaimableMints == {"DezXAZ8z", "EKpQGSJt"}

\* the asset lists the functions are called with, a repeated mint included
ClaimableAssetLists ==
  {[i \in 1..Len(ms) |-> ScoredAsset(ms[i])] : ms \in SeqsUpTo(ClaimableMints, 2)}

\* !lastClaimed
NotClaimed(lastClaimed) == lastClaimed = Undef \/ lastClaimed = 0

getClaimableAssets(assets, claimedTimestamps, dateNow) ==
  SelectSeq(assets,
    LAMBDA asset : LET lastClaimed == claimedTimestamps[asset.mint] IN
                   IF NotClaimed(lastClaimed) THEN TRUE
                   ELSE dateNow - lastClaimed >= CLAIM_COOLDOWN_MS)

RECURSIVE NextClaimableFrom(_, _, _, _)
\* the loop of getNextClaimableTime over the remaining assets
NextClaimableFrom(assets, claimedTimestamps, dateNow, earliest) ==
  IF assets = << >> THEN earliest
  ELSE LET lastClaimed == claimedTimestamps[Head(assets).mint]
           unlocksAt == lastClaimed + CLAIM_COOLDOWN_MS
           e == IF ~NotClaimed(lastClaimed) /\ dateNow - lastClaimed < CLAIM_COOLDOWN_MS
                   /\ (earliest = Undef \/ unlocksAt < earliest)
                THEN unlocksAt ELSE earliest
       IN NextClaimableFrom(Tail(assets), claimedTimestamps, dateNow, e)

RECURSIVE LatestClaimableFrom(_, _, _, _)
\* the loop keeping the latest unlock time instead of the earliest
LatestClaimableFrom(assets, claimedTimestamps, dateNow, latest) ==
  IF assets = << >> THEN latest
  ELSE LET lastClaimed == claimedTimestamps[Head(assets).mint]
           unlocksAt == lastClaimed + CLAIM_COOLDOWN_MS
           e == IF ~NotClaimed(lastClaimed) /\ dateNow - lastClaimed < CLAIM_COOLDOWN_MS
                   /\ (latest = Undef \/ unlocksAt > latest)
                THEN unlocksAt ELSE latest
       IN LatestClaimableFrom(Tail(assets), claimedTimestamps, dateNow, e)

\* getNextClaimableTime with unlocksAt > earliest in its loop
getNextClaimableTime_Latest(assets, claimedTimestamps, dateNow) ==
  LatestClaimableFrom(assets, claimedTimestamps, dateNow, Undef)

getNextClaimableTime(assets, claimedTimestamps, dateNow) ==
  NextClaimableFrom(assets, claimedTimestamps, dateNow, Undef)

ClaimableInit ==
  /\ InitProgram
  /\ probe = [op |-> "none", dateNow |-> 1,
              claimedAssetTimestamps |-> [m \in ClaimableMints |-> Undef],
              assets |-> << >>, claimable |-> << >>, next |-> Undef]

\* useAppStore.markAssetsClaimed
markAssetsClaimed(mints) ==
  /\ probe' = [probe EXCEPT !.op = "mark", !.assets = << >>, !.claimable = << >>,
                 !.next = Undef,
                 !.claimedAssetTimestamps =
                    [m \in ClaimableMints |-> IF m \in mints THEN probe.dateNow ELSE @[m]]]
  /\ UNCHANGED <<now, mounted, wallet, scanCache, hookVars>>

\* getClaimableAssets and getNextClaimableTime called at the same instant
ProbeClaimable(assets) ==
  /\ probe' = [probe EXCEPT !.op = "claimable", !.assets = assets,
                 !.claimable = getClaimableAssets(assets, probe.claimedAssetTimestamps,
                                                  probe.dateNow),
                 !.next = getNextClaimableTime(assets, probe.claimedAssetTimestamps,
                                               probe.dateNow)]
  /\ UNCHANGED <<now, mounted, wallet, scanCache, hookVars>>

\* time passes: the results of the last call belong to the past
ClaimableTick(step) ==
  /\ probe.dateNow + step <= MaxCooldownHours
  /\ probe' = [probe EXCEPT !.op = "tick", !.dateNow = @ + step, !.assets = << >>,
                            !.claimable = << >>, !.next = Undef]
  /\ UNCHANGED <<now, mounted, wallet, scanCache, hookVars>>

ClaimableNext ==
  \/ \E mints \in SUBSET ClaimableMints \ {{}} : markAssetsClaimed(mints)
  \/ \E assets \in ClaimableAssetLists : ProbeClaimable(assets)
  \/ \E step \in {1, CLAIM_COOLDOWN_MS - 1} : ClaimableTick(step)

ClaimableSpec == ClaimableInit /\ [][ClaimableNext]_vars

\* ======================================================= rewards adapters
\* The two RewardsAdapter singletons called for several wallets. Time is counted
\* in hours and starts at 1. The state is carried in probe: dateNow;
\* lastPointsData (the _lastPointsData field of the TorqueRewardsAdapter
\* instance); claimedPointsStore (the Map of the mock adapter, by lower-cased
\* wallet, 0 for a wallet without an entry); the last call (its adapter, wallet,
\* zombieCount and result); and two history fields: computedFor (per wallet, the
\* availableToClaim the Torque adapter last computed for it, 0 if none) and
\* mockClaimed (per wallet, the sum of the amounts the mock adapter's
\* claimRewards returned for it).
AdapterCounts == {0, 1, 3}

\* the connection times passed to getUserPoints: the start of the session and a
\* time that is still ahead for most of it
AdapterConnectTimes == {1, MaxAdapterHours}

\* Map keys of the mock adapter: wallet.toLowerCase()
WalletLowerCase(w) == IF w = "wA" THEN "wa" ELSE IF w = "wB" THEN "wb" ELSE w

\* MockRewardsAdapter.getUserPoints: available = total - claimed, not below 0
mockGetUserPoints(claimed, zombieCount, walletConnectedAt, dateNow) ==
  LET points == calculatePoints(zombieCount, walletConnectedAt, dateNow)
  IN [totalPoints |-> points.totalPoints, pointsPerDay |-> points.pointsPerDay,
      availableToClaim |-> Max(0, points.totalPoints - claimed),
      lastUpdated |-> dateNow, tier |-> getTierForPoints(points.totalPoints)]

AdaptersInit ==
  /\ InitProgram
  /\ probe = [op |-> "none", dateNow |-> 1, lastPointsData |-> NoPointsData,
              claimedPointsStore |-> [k \in {WalletLowerCase(w) : w \in Wallets} |-> 0],
              adapter |-> "none", wallet |-> NoWallet, zombieCount |-> 0,
              points |-> NoPointsData, claim |-> NoResult,
              computedFor |-> [w \in Wallets |-> 0],
              mockClaimed |-> [w \in Wallets |-> 0]]

\* TorqueRewardsAdapter.getUserPoints(w, zombieCount, walletConnectedAt)
TorqueGetUserPoints(w, zombieCount, walletConnectedAt) ==
  LET result == getUserPoints(zombieCount, walletConnectedAt, probe.dateNow) IN
  /\ probe' = [probe EXCEPT !.op = "getUserPoints", !.adapter = "torque", !.wallet = w,
                 !.zombieCount = zombieCount, !.points = result, !.claim = NoResult,
                 !.lastPointsData = result,
                 !.computedFor[w] = result.availableToClaim]
  /\ UNCHANGED <<now, mounted, wallet, scanCache, hookVars>>

\* TorqueRewardsAdapter.claimRewards(w)
TorqueClaimRewards(w) ==
  /\ probe' = [probe EXCEPT !.op = "claimRewards", !.adapter = "torque", !.wallet = w,
                 !.points = NoPointsData,
                 !.claim = claimRewards(IF probe.lastPointsData = NoPointsData THEN 0
                                        ELSE probe.lastPointsData.availableToClaim)]
  /\ UNCHANGED <<now, mounted, wallet, scanCache, hookVars>>

\* MockRewardsAdapter.getUserPoints(w, zombieCount, walletConnectedAt)
MockGetUserPoints(w, zombieCount, walletConnectedAt) ==
  /\ probe' = [probe EXCEPT !.op = "getUserPoints", !.adapter = "mock", !.wallet = w,
                 !.zombieCount = zombieCount, !.claim = NoResult,
                 !.points = mockGetUserPoints(probe.claimedPointsStore[WalletLowerCase(w)],
                              zombieCount, walletConnectedAt, probe.dateNow)]
  /\ UNCHANGED <<now, mounted, wallet, scanCache, hookVars>>

\* MockRewardsAdapter.claimRewards(w): adds the mock amount to the wallet's total
MockClaimRewards(w) ==
  /\ probe.mockClaimed[w] < MaxMockClaimed
  /\ probe' = [probe EXCEPT !.op = "claimRewards", !.adapter = "mock", !.wallet = w,
                 !.points = NoPointsData,
                 !.claimedPointsStore[WalletLowerCase(w)] = @ + 100,
                 !.claim = Returned(TRUE, 100, "mock_tx"),
                 !.mockClaimed[w] = @ + 100]
  /\ UNCHANGED <<now, mounted, wallet, scanCache, hookVars>>

AdaptersTick ==
  /\ probe.dateNow + HoursPerDay <= MaxAdapterHours
  /\ probe' = [probe EXCEPT !.op = "tick", !.dateNow = @ + HoursPerDay,
                            !.points = NoPointsData, !.claim = NoResult]
  /\ UNCHANGED <<now, mounted, wallet, scanCache, hookVars>>

AdaptersNext ==
  \/ \E w \in Wallets : \E n \in AdapterCounts : \E t \in AdapterConnectTimes :
       TorqueGetUserPoints(w, n, t)
  \/ \E w \in Wallets : TorqueClaimRewards(w)
  \/ \E w \in Wallets : \E n \in AdapterCounts : \E t \in AdapterConnectTimes :
       MockGetUserPoints(w, n, t)
  \/ \E w \in Wallets : MockClaimRewards(w)
  \/ AdaptersTick

AdaptersSpec == AdaptersInit /\ [][AdaptersNext]_vars

\* ============================================================ ScanEventSpec
\* useZombieClaim.fireScanEvent: the zombie_scan_complete custom event of the
\* offer (action index 0).  The record `probe` holds the state of one
\* useZombieClaim instance and the fireScanEvent calls made on it.

\* fireScanEvent returns early when assetsFound < 3
MinAssetsFound == 3

\* the calls of fireScanEvent the model follows
ScanCalls == 1..MaxScanCalls

\* the asset counts a call is made with
ScanAssetCounts == {0, MinAssetsFound - 1, MinAssetsFound, MinAssetsFound + 1}

NoOffer == "none"

NotCalled ==
  [status |-> "notCalled", assetsFound |-> 0, offerId |-> NoOffer,
   isAuthenticated |-> FALSE, scanEventFired |-> FALSE]

\* the guard fireScanEvent opens with
FireGuard(offerId, isAuthenticated, assetsFound, scanEventFired) ==
  offerId # NoOffer /\ isAuthenticated /\ assetsFound >= MinAssetsFound /\ ~scanEventFired

ScanEventInit ==
  /\ InitProgram
  /\ probe = [op |-> "none", offerId |-> NoOffer, isAuthenticated |-> FALSE,
              scanEventFired |-> FALSE, executed |-> 0,
              calls |-> [c \in ScanCalls |-> NotCalled]]

\* createOfferMutation.onSuccess: setOfferId(data.id)
OfferCreated ==
  /\ probe.offerId = NoOffer
  /\ probe' = [probe EXCEPT !.op = "setOfferId", !.offerId = "offer"]
  /\ UNCHANGED <<now, mounted, wallet, scanCache, hookVars>>

\* useTorque().isAuthenticated turns true (login) or false (logout)
TorqueAuthChanges ==
  /\ probe' = [probe EXCEPT !.op = "auth", !.isAuthenticated = ~@]
  /\ UNCHANGED <<now, mounted, wallet, scanCache, hookVars>>

\* call c of fireScanEvent(assetsFound): the guard on the rendered state, then
\* the request torque.offers.actions.executeAction(offerId, 0) goes out
fireScanEvent(c, assetsFound) ==
  /\ probe.calls[c].status = "notCalled"
  /\ probe' = [probe EXCEPT !.op = "fireScanEvent",
                 !.calls[c] = [status |-> IF FireGuard(probe.offerId, probe.isAuthenticated,
                                                       assetsFound, probe.scanEventFired)
                                          THEN "executing" ELSE "returned",
                               assetsFound |-> assetsFound,
                               offerId |-> probe.offerId,
                               isAuthenticated |-> probe.isAuthenticated,
                               scanEventFired |-> probe.scanEventFired]]
  /\ UNCHANGED <<now, mounted, wallet, scanCache, hookVars>>

\* executeAction of call c resolves: setScanEventFired(true)
ExecuteResolves(c) ==
  /\ probe.calls[c].status = "executing"
  /\ probe' = [probe EXCEPT !.op = "resolved", !.calls[c].status = "resolved",
                            !.scanEventFired = TRUE, !.executed = @ + 1]
  /\ UNCHANGED <<now, mounted, wallet, scanCache, hookVars>>

\* executeAction of call c rejects: the catch block only logs
ExecuteRejects(c) ==
  /\ probe.calls[c].status = "executing"
  /\ probe' = [probe EXCEPT !.op = "rejected", !.calls[c].status = "rejected"]
  /\ UNCHANGED <<now, mounted, wallet, scanCache, hookVars>>

ScanEventNext ==
  \/ OfferCreated
  \/ TorqueAuthChanges
  \/ \E c \in ScanCalls : \E n \in ScanAssetCounts : fireScanEvent(c, n)
  \/ \E c \in ScanCalls : ExecuteResolves(c)
  \/ \E c \in ScanCalls : ExecuteRejects(c)

ScanEventSpec == ScanEventInit /\ [][ScanEventNext]_vars

\* ================================================================ claims
InFlight(h) == run[h].kind # "idle"

\* a run of hook h starts in this step
Starts(h, kind) == ~InFlight(h) /\ run'[h].kind = kind

\* the cache entry of wallet w is valid for reads now
CacheValid(w) == getCachedResult(scanCache, getNetworkFromEnv, now, w).found

\* C1: for every wallet address at most one scanWallet or refetch run is in
\* flight at any time, whichever mounted component started it.
C1_OneScanPerWallet ==
  \A w \in Wallets : Cardinality({h \in Hooks : InFlight(h) /\ run[h].publicKey = w}) <= 1

\* C2: a scanWallet call for a wallet whose cache entry is valid (same network,
\* age at most 5 minutes) short-circuits: it starts no run, so it issues no
\* ledger query.
C2_ValidCacheShortCircuits ==
  [][\A h \in Hooks : Starts(h, "scanWallet") => ~CacheValid(run'[h].publicKey)]_vars

\* the last cacheResult for the probed address, if no delete followed it
ProbeStored == probe.stored[probe.walletAddress]

\* C3: getCachedResult(addr) returns exactly the assets of the last
\* cacheResult(addr, assets) when that entry's network is the current network
\* and its age is at most 5 minutes, and null in every other case (no entry,
\* another network, older than 5 minutes); so it never returns what was stored
\* for another address or network.
C3_CacheRoundTrip ==
  probe.op = "get" =>
    probe.result =
      IF /\ ProbeStored # NoEntry
         /\ ProbeStored.network = probe.network
         /\ probe.at - ProbeStored.timestamp <= CACHE_TTL_MS
      THEN [found |-> TRUE, assets |-> ProbeStored.assets]
      ELSE CacheMiss

\* C3 witness: a read exactly 5 minutes after the write returns the assets,
\* while the other address holds different assets
C3_Witness ==
  /\ probe.op = "get" /\ probe.result.found
  /\ probe.result.assets # << >>
  /\ probe.at - ProbeStored.timestamp = CACHE_TTL_MS
  /\ \E w \in Wallets : /\ probe.stored[w] # NoEntry
                        /\ probe.stored[w].assets # probe.result.assets

EndsInError(h) == InFlight(h) /\ run[h].phase = "tokens" /\ ~InFlight(h)'

\* a run of hook h ends in this step through the end of its try block
EndsInSuccess(h) == InFlight(h) /\ run[h].phase = "rest" /\ ~InFlight(h)'

\* C5: a failed run never writes the cache: the step in which a run ends in its
\* error path leaves every cache entry as it was, and an entry is created or
\* overwritten only by the step in which a run for that wallet completes.
C5_FailedScanNeverWritesCache ==
  [][/\ (\E h \in Hooks : EndsInError(h)) => scanCache' = scanCache
     /\ \A w \in Wallets :
          (scanCache'[w] # scanCache[w] /\ scanCache'[w] # NoEntry)
            => \E h \in Hooks : EndsInSuccess(h) /\ run[h].publicKey = w]_vars

\* C5 witness: a run has failed, its error is on display, and the cache holds no
\* entry for the wallet it scanned
C5_Witness ==
  \E h \in Hooks : /\ error[h] # NoError
                   /\ ~InFlight(h)
                   /\ errorOf[h] \in Wallets
                   /\ scanCache[errorOf[h]] = NoEntry

\* C6: a failed scan is not retried automatically: while the error of a failed
\* scan of wallet w is on display, a scanWallet run for w starts only from a
\* timer armed by a change of the wallet connection.
C6_NoAutomaticRetry ==
  [][\A h \in Hooks :
       (Starts(h, "scanWallet") /\ error[h] # NoError /\ errorOf[h] = run'[h].publicKey)
         => \E t \in timers[h] \ timers'[h] : t.armedBy = "connect"]_vars

\* C7: every started run eventually completes or fails, whichever request
\* stays unanswered.
C7_EveryRunEnds ==
  \A h \in Hooks : InFlight(h) ~> ~InFlight(h)

\* C8: in every reachable state the displayed assets are empty or the result
\* of a scan of the currently connected wallet.
C8_AssetsOfConnectedWallet ==
  \A h \in Hooks : zombieAssets[h] = << >> \/ assetsOf[h] = wallet

\* C9: a scanWallet run starts only from the debounce timer armed on a
\* wallet-connect transition; a disconnect or an unmount leaves no timer pending;
\* at most one timer is pending per hook instance.
C9_TimerDiscipline ==
  /\ [](\A h \in Hooks : Cardinality(timers[h]) <= 1)
  /\ []((wallet = NoWallet \/ ~mounted) => \A h \in Hooks : timers[h] = {})
  /\ [][\A h \in Hooks : Starts(h, "scanWallet")
          => \E t \in timers[h] \ timers'[h] : t.armedBy = "connect"]_vars

\* what a scanWallet run displays and caches when it is answered resp
ScanOutcome(resp) ==
  [displayed |-> injectDevModeAssets(ScanAssets(resp), resp).assets,
   cached |-> ScanAssets(resp)]

\* C10: a refetch that completes displays the asset set and leaves the cache
\* entry that a scanWallet run with an empty cache produces for the same answers.
C10_RefetchLikeScan ==
  [][\A h \in Hooks :
       (EndsInSuccess(h) /\ run[h].kind = "refetch" /\ run[h].live /\ wallet # NoWallet)
         => \E resp \in Answers(run[h].publicKey) :
              /\ zombieAssets'[h] = ScanOutcome(resp).displayed
              /\ scanCache'[run[h].publicKey].assets = ScanOutcome(resp).cached]_vars

\* the ledger without its empty accounts
WithoutEmpty(resp) ==
  [resp EXCEPT !.accounts = SelectSeq(resp.accounts, LAMBDA acc : acc.amount # 0)]

\* C11: no asset a run produces stems from a token account whose raw amount
\* is 0: every asset handed to the cache has an account of its mint with a
\* positive amount, and the run's outcome (displayed and cached) is the one the
\* same ledger without its empty accounts gives.
C11_ZeroBalanceNeverQualifies ==
  probe.op = "run" =>
    /\ \A i \in 1..Len(probe.out.cached) :
         \E j \in 1..Len(probe.resp.accounts) :
           /\ probe.resp.accounts[j].mint = probe.out.cached[i].mint
           /\ probe.resp.accounts[j].amount > 0
    /\ probe.out = RunOutcome(probe.kind, probe.tokens, WithoutEmpty(probe.resp))

\* C11 witness: a completed run over a ledger holding an empty account of the
\* allowlisted token next to a held one produced assets
C11_Witness ==
  /\ probe.op = "run" /\ probe.tokens = "ok"
  /\ \E j \in 1..Len(probe.resp.accounts) :
       /\ probe.resp.accounts[j].mint = "DezXAZ8z"
       /\ probe.resp.accounts[j].amount = 0
  /\ \E j \in 1..Len(probe.resp.accounts) : probe.resp.accounts[j].amount > 0
  /\ probe.out.cached # << >>

\* the token assets a ledger of the scan model decodes to: its accounts of the
\* allowlisted token with a positive amount, as (mint, balance in hundredths)
ExpectedTokens(accounts) ==
  LET held == SelectSeq(accounts, LAMBDA acc : acc.mint = "DezXAZ8z" /\ acc.amount > 0)
  IN [i \in 1..Len(held) |-> [mint |-> held[i].mint, balance |-> held[i].amount * 100]]

\* the NFT mints a scan keeps: the single-unit accounts whose metadata was
\* fetched and decoded to a matching name, when the NFT enumeration answered
ExpectedNfts(resp) ==
  LET kept == SelectSeq(resp.accounts,
                LAMBDA acc : /\ resp.nftQueryOk
                             /\ acc.amount = 1
                             /\ resp.meta[acc.mint].name \in {"howload", "howloud"})
  IN [i \in 1..Len(kept) |-> kept[i].mint]

\* the assets of one type, in order
OfType(assets, type) == SelectSeq(assets, LAMBDA a : a.type = type)

\* C12: a run sets an error exactly when the initial enumeration of token
\* accounts failed.  Otherwise it keeps every decoded token asset whatever
\* failed afterwards (a metadata fetch or decoding, the price request, a
\* dormancy lookup, the balance request), and a failing NFT candidate removes
\* only itself: the NFTs kept are exactly the candidates whose own metadata
\* decoded to a matching name.
C12_PartialFailurePolicy ==
  probe.op = "run" =>
    LET out == probe.out
        tokens == OfType(out.cached, "token")
        nfts == OfType(out.cached, "nft")
    IN /\ (out.error # NoError) <=> (probe.tokens # "ok")
       /\ probe.tokens = "ok" =>
            /\ [i \in 1..Len(tokens) |->
                  [mint |-> tokens[i].mint, balance |-> tokens[i].balance]]
                 = ExpectedTokens(probe.resp.accounts)
            /\ [i \in 1..Len(nfts) |-> nfts[i].mint] = ExpectedNfts(probe.resp)
            /\ Len(out.displayed) >= Len(out.cached)
            /\ SubSeq(out.displayed, 1, Len(out.cached)) = out.cached

\* C12 witness: the metadata of the first NFT throws, the price request and the
\* dormancy lookups fail; the run ends without error and keeps the token and
\* the second NFT
C12_Witness ==
  /\ probe.op = "run" /\ probe.tokens = "ok"
  /\ probe.resp.accounts = FullLedger
  /\ probe.resp.meta["NftHowl1"].name = "throws"
  /\ ~probe.resp.priceOk
  /\ probe.resp.dormancy["DezXAZ8z"] = -1
  /\ probe.out.error = NoError
  /\ Len(probe.out.cached) = 2
  /\ probe.out.cached[1].mint = "DezXAZ8z"
  /\ probe.out.cached[2].mint = "NftHowl2"

\* C13: classifyTokenAsset returns exactly one of the token categories for every
\* argument: dead_project whenever the mint is on the dead-project allowlist,
\* whatever the price and the dormancy; otherwise dust_token exactly when a
\* price resolved and balance x price < 0.10 dollar; otherwise dormant_token.
C13_ClassifyFirstMatchWins ==
  probe.op = "classify" =>
    /\ probe.out \in {"dead_project", "dust_token", "dormant_token"}
    /\ probe.out =
         IF probe.mint \in DeadProjectMints THEN "dead_project"
         ELSE IF probe.usdPrice # Undef /\ probe.balance * probe.usdPrice < 10000000
         THEN "dust_token"
         ELSE "dormant_token"

\* C13 witness: a dead-project mint whose holding is worth less than 0.10 dollar
\* and was idle for 90 days is classified dead_project
C13_Witness ==
  /\ probe.op = "classify"
  /\ probe.mint \in DeadProjectMints
  /\ probe.usdPrice = 5000 /\ probe.balance = 1999
  /\ probe.dormancyDays = 90
  /\ probe.out = "dead_project"

\* C14: totalPoints = floor(pointsPerDay x min(daysActive, 365)) with
\* daysActive = max(0, now - connectedAt) in days: never negative, and no
\* larger after the 365th day than on it.
C14_TotalPointsCappedAtYear ==
  probe.op = "points" =>
    LET elapsed == Max(0, probe.dateNow - probe.walletConnectedAt) IN
    /\ probe.out.totalPoints >= 0
    /\ probe.out.totalPoints =
         (probe.pointsPerDay * Min(elapsed, DaysCap * HoursPerDay)) \div HoursPerDay

\* C16: for every totalPoints >= 0 getTierForPoints returns the tier with the
\* highest threshold not exceeding totalPoints, and for every totalPoints the
\* tier mockFetchTorquePoints computes inline is the one getTierForPoints gives.
C16_TierLookup ==
  probe.op = "tier" =>
    /\ probe.totalPoints >= 0 =>
         \E i \in 1..Len(POINTS_TIERS) :
           /\ POINTS_TIERS[i].name = probe.out
           /\ POINTS_TIERS[i].minPoints <= probe.totalPoints
           /\ \A j \in 1..Len(POINTS_TIERS) :
                POINTS_TIERS[j].minPoints <= probe.totalPoints
                  => POINTS_TIERS[j].minPoints <= POINTS_TIERS[i].minPoints
    /\ probe.mock = probe.out

\* C16 witness: exactly 50000 points are Elite by both computations
C16_Witness ==
  /\ probe.op = "tier" /\ probe.totalPoints = 50000
  /\ probe.out = "Elite" /\ probe.mock = "Elite"

\* C17: for every dormancy d >= 0 the dormancyBonus (in sixtieths) lies in
\* [0, 3], does not decrease from d to d + 1, is 1.5 at d = 90 and is 3 from
\* d = 180 on.
C17_DormancyBonusBounds ==
  probe.op = "dormancyBonus" =>
    /\ 0 <= probe.out /\ probe.out <= 3 * 60
    /\ probe.out <= probe.next
    /\ probe.dormancyDays = 90 => 2 * probe.out = 3 * 60
    /\ probe.dormancyDays >= 180 => probe.out = 3 * 60
    /\ probe.dormancyDays < 180 => probe.out < 3 * 60

\* C17 witness: a dormancy beyond 180 days scored at the cap
C17_Witness ==
  /\ probe.op = "dormancyBonus" /\ probe.dormancyDays > 180
  /\ probe.out = 3 * 60

C15_ReconnectKeepsConnectionTime ==
  /\ probe.walletConnectedAt # Undef => probe.walletConnectedAt = probe.firstConnectedAt
  /\ (/\ probe.pointsData # NoPointsData
      /\ probe.atDisconnect # NoPointsData
      /\ probe.pointsData.pointsPerDay = probe.atDisconnect.pointsPerDay)
       => probe.pointsData.totalPoints >= probe.atDisconnect.totalPoints

\* C19: once a day at most: any two entries of claimHistory have timestamps at
\* least COOLDOWN_MS apart.
C19_OnceADay ==
  \A i \in 1..Len(probe.claimHistory) : \A j \in 1..Len(probe.claimHistory) :
    i < j => probe.claimHistory[i] - probe.claimHistory[j] >= COOLDOWN_MS

\* C20: a call of claimViaTorque whose Torque path failed gives its caller what
\* the local claimRewards gave (its result, or its error), never the Torque
\* error, in the hook and in the adapter; and every step that ends a call of the
\* hook leaves claiming false, whether the call returned or threw.
C20_ClaimFallsBack ==
  /\ [](\A c \in Callers :
          (probe.calls[c].phase = "done" /\ probe.calls[c].torqueFailed)
            => /\ probe.calls[c].result = probe.calls[c].local
               /\ probe.calls[c].result.error # "torque")
  /\ [](probe.adapter.torqueFailed => probe.adapter.result = probe.adapter.local)
  /\ [][\A c \in Callers :
          (probe.calls[c].phase # "done" /\ probe'.calls[c].phase = "done")
            => ~probe'.claiming]_vars

\* C20 witness: a call of the hook whose Torque path failed has returned the
\* local result, another one has thrown the local error, and claiming is false
C20_Witness ==
  /\ ~probe.claiming
  /\ \E c \in Callers :
       /\ probe.calls[c].phase = "done" /\ probe.calls[c].torqueFailed
       /\ probe.calls[c].result.kind = "returned"
  /\ \E c \in Callers :
       /\ probe.calls[c].phase = "done" /\ probe.calls[c].torqueFailed
       /\ probe.calls[c].result.kind = "threw"
  /\ probe.adapter.torqueFailed

\* C21: every asset a successful run puts on display carries one of the four
\* categories and a computed zombieScore, and every NFT on display carries
\* abandoned_nft.
C21_EveryDisplayedAssetClassified ==
  (probe.op = "run" /\ probe.tokens = "ok") =>
    \A i \in 1..Len(probe.out.displayed) :
      LET a == probe.out.displayed[i] IN
      /\ a.category \in {"dead_project", "dust_token", "dormant_token", "abandoned_nft"}
      /\ a.zombieScore # NoScore
      /\ a.type = "nft" => a.category = "abandoned_nft"

\* C22: one scanWallet run issues at most DormancyLimit dormancy requests,
\* whatever the number of token accounts and of accounts holding the same mint.
C22_DormancyLookbackBounded ==
  probe.op = "dormancy" => probe.queries <= DormancyLimit

\* a token account of the ledger that a scan keeps: a positive amount of an
\* allowlisted mint, or a single unit whose metadata names a tracked collection
Qualifies(acc, resp) ==
  \/ acc.amount > 0 /\ ToLowerCase(acc.mint) \in zombieTokenSet
  \/ /\ acc.amount = 1 /\ resp.nftQueryOk
     /\ resp.meta[acc.mint].name \in {"howload", "howloud"}

\* C23: every step that writes a cache entry for a wallet address writes the
\* current time, the active network, and assets that are exactly those of the
\* qualifying accounts of that wallet's ledger, none of them an injected mock
\* asset.
C23_OnlyRealAssetsCached ==
  [][\A w \in Wallets :
       (scanCache'[w] # scanCache[w] /\ scanCache'[w] # NoEntry) =>
         LET e == scanCache'[w]
             resp == RichAnswers(w)
             mocks == getMockAssetsForBalance(resp.sol)
             kept == SelectSeq(Ledger(w), LAMBDA acc : Qualifies(acc, resp))
         IN /\ e.timestamp = now'
            /\ e.network = getNetworkFromEnv
            /\ Len(e.assets) = Len(kept)
            /\ \A i \in 1..Len(kept) :
                 \E k \in 1..Len(e.assets) : e.assets[k].mint = kept[i].mint
            /\ \A k \in 1..Len(e.assets) :
                 /\ \E i \in 1..Len(kept) : e.assets[k].mint = kept[i].mint
                 /\ \A j \in 1..Len(mocks) : e.assets[k] # mocks[j]
                 /\ e.assets[k].category # "undefined"]_vars

\* C23 witness: a hook displays the assets of a wallet with an injected mock
\* asset among them while the cache entry of that wallet holds fewer assets
C23_Witness ==
  \E h \in Hooks : \E w \in Wallets :
    /\ assetsOf[h] = w
    /\ scanCache[w] # NoEntry
    /\ Len(zombieAssets[h]) > Len(scanCache[w].assets)
    /\ \E i \in 1..Len(zombieAssets[h]) : zombieAssets[h][i].category = "undefined"

\* C24: every token asset a run keeps has a mint of ZOMBIE_TOKEN_MINTS, and its
\* name is the one the tokenMetadata table records for that mint when the table
\* has an entry for it, "Unknown Token" only when it has none.
C24_NameFromMetadataTable ==
  probe.op = "run" =>
    \A i \in 1..Len(probe.out.cached) :
      LET a == probe.out.cached[i] IN
      a.type = "token" =>
        /\ \E k \in 1..Len(ZOMBIE_TOKEN_MINTS) : ZOMBIE_TOKEN_MINTS[k] = a.mint
        /\ a.name = IF tokenMetadata(a.mint) # NoMetadata THEN tokenMetadata(a.mint).name
                    ELSE "Unknown Token"

\* the assets of the last call that are on cooldown: claimed, and less than
\* CLAIM_COOLDOWN_MS ago
OnCooldownIn(assets) ==
  {i \in 1..Len(assets) :
     /\ probe.claimedAssetTimestamps[assets[i].mint] # Undef
     /\ probe.dateNow - probe.claimedAssetTimestamps[assets[i].mint] < CLAIM_COOLDOWN_MS}

\* C25: for one list of assets and one instant, getClaimableAssets returns the
\* assets never claimed or claimed at least CLAIM_COOLDOWN_MS ago;
\* getNextClaimableTime returns null exactly when that is the whole list, and
\* otherwise the least lastClaimed + CLAIM_COOLDOWN_MS over the assets on
\* cooldown, which is later than the instant of the call.
C25_NextClaimableTime ==
  probe.op = "claimable" =>
    LET cooling == OnCooldownIn(probe.assets)
        unlock(i) == probe.claimedAssetTimestamps[probe.assets[i].mint] + CLAIM_COOLDOWN_MS
    IN /\ probe.claimable =
            SelectSeq(probe.assets,
              LAMBDA a : \/ probe.claimedAssetTimestamps[a.mint] = Undef
                         \/ probe.dateNow - probe.claimedAssetTimestamps[a.mint]
                              >= CLAIM_COOLDOWN_MS)
       /\ (probe.next = Undef) <=> (probe.claimable = probe.assets)
       /\ (probe.next = Undef) <=> (cooling = {})
       /\ probe.next # Undef =>
            /\ probe.next > probe.dateNow
            /\ \E i \in cooling : probe.next = unlock(i)
            /\ \A i \in cooling : probe.next <= unlock(i)

\* C25 witness: a call over two assets on cooldown with different unlock times,
\* and a call at exactly CLAIM_COOLDOWN_MS after a claim
C25_Witness ==
  /\ probe.op = "claimable"
  /\ Len(probe.assets) = 2
  /\ probe.claimable = << >>
  /\ probe.claimedAssetTimestamps["DezXAZ8z"] > probe.claimedAssetTimestamps["EKpQGSJt"]
  /\ probe.claimedAssetTimestamps["EKpQGSJt"] # Undef
  /\ probe.next = probe.claimedAssetTimestamps["EKpQGSJt"] + CLAIM_COOLDOWN_MS

\* C26: what the Torque adapter's getUserPoints returns: for a positive
\* zombieCount, whatever the connection time, availableToClaim = totalPoints >=
\* pointsPerDay > 0; for zombieCount 0, availableToClaim = totalPoints = 0.
C26_AlwaysClaimablePoints ==
  (probe.op = "getUserPoints" /\ probe.adapter = "torque") =>
    /\ probe.points.availableToClaim = probe.points.totalPoints
    /\ probe.zombieCount > 0 =>
         /\ probe.points.pointsPerDay > 0
         /\ probe.points.totalPoints >= probe.points.pointsPerDay
    /\ probe.zombieCount = 0 => probe.points.totalPoints = 0

\* C26 witness: getUserPoints for a wallet with assets and a connection time
\* that is not in the past returned one day's worth
C26_Witness ==
  /\ probe.op = "getUserPoints" /\ probe.adapter = "torque"
  /\ probe.zombieCount = 3
  /\ probe.dateNow = 1
  /\ probe.points.totalPoints = 30
  /\ probe.points.availableToClaim = 30

\* C29: the local claim of the Torque adapter for a wallet returns the
\* availableToClaim last computed by getUserPoints for that wallet (0 if none),
\* and the mock adapter's total for a wallet is the sum of what its claimRewards
\* returned for that wallet.
C29_ClaimDependsOnWalletOnly ==
  /\ (probe.op = "claimRewards" /\ probe.adapter = "torque") =>
       probe.claim.claimedAmount = probe.computedFor[probe.wallet]
  /\ \A w \in Wallets : probe.claimedPointsStore[WalletLowerCase(w)] = probe.mockClaimed[w]

\* C27: the in-flight guard and loading of a hook are true only while a run of
\* that hook instance is between its start and its end, and every step that ends
\* a run, by success or by an error, leaves both false.
C27_GuardAlwaysReleased ==
  /\ [](\A h \in Hooks : (isScanningRef[h] \/ loading[h]) => (InFlight(h) /\ run[h].live))
  /\ [][\A h \in Hooks :
          (InFlight(h) /\ run[h].live /\ run'[h].kind = "idle")
            => (~isScanningRef'[h] /\ ~loading'[h])]_vars

\* C27 witness: a refetch is in flight on a hook that shows a completed scan and
\* whose earlier run of the same wallet has ended
C27_Witness ==
  \E h \in Hooks :
    /\ InFlight(h) /\ run[h].kind = "refetch" /\ run[h].live
    /\ isScanningRef[h] /\ loading[h]
    /\ scanComplete[h]
    /\ assetsOf[h] = run[h].publicKey

\* the outcome of a scan of wallet w is what hook h displays: its assets, or its
\* error
OutcomeDisplayed(h, w) ==
  \/ assetsOf[h] = w /\ scanComplete[h]
  \/ errorOf[h] = w /\ error[h] # NoError

\* C28: when every run ends, a wallet that is connected and stays connected
\* eventually has the outcome of a scan of it on display in every hook, even if
\* its debounce timer fired while another run was in flight.
C28_NoConnectTriggerLost ==
  (\A h \in Hooks : []<>(~InFlight(h)))
    => \A w \in Wallets : \A h \in Hooks :
         (wallet = w /\ mounted) ~> (wallet # w \/ OutcomeDisplayed(h, w))

\* a call of fireScanEvent that sent executeAction(offerId, 0)
Executed(c) == probe.calls[c].status \in {"executing", "resolved", "rejected"}

\* C30: the zombie_scan_complete event is executed only with an offer id, an
\* authenticated user and at least 3 assets found; it is executed successfully
\* at most once per useZombieClaim instance, whatever the interleaving of
\* fireScanEvent calls; a failed execution does not set scanEventFired.
C30_ScanEventAtMostOnce ==
  /\ \A c \in ScanCalls :
       Executed(c) => /\ probe.calls[c].offerId # NoOffer
                      /\ probe.calls[c].isAuthenticated
                      /\ probe.calls[c].assetsFound >= MinAssetsFound
  /\ probe.executed <= 1
  /\ probe.scanEventFired => probe.executed >= 1

====
